---------------------------- MODULE Spec2Model ----------------------------
(***************************************************************************)
(* A model of the DECL streaming engine of gen-ui-example: the delta       *)
(* aggregator and the streaming orchestrator (services/decl/generator.ts), *)
(* the incremental JSON extractor, the store helpers, the variable         *)
(* resolver and the node renderer (services/decl/utils.ts), and the        *)
(* generation page (pages/DeclGenExample.tsx).                             *)
(*                                                                         *)
(* JavaScript values are tagged records [t, v]:                            *)
(*   "undef", "null", "bool", "num", "str" (v: a sequence of one-character *)
(*   strings), "arr" (v: a sequence of values), "obj" (v: a function from  *)
(*   key strings to values), "el" (a React element), "fn" (a callback).    *)
(* Texts are sequences of one-character strings; offsets into a text are   *)
(* the 0-based offsets of the source.                                      *)
(***************************************************************************)
EXTENDS Integers, Sequences, FiniteSets, TLC

VARIABLES
    updates,        \* SpecAgg: the DeclUpdate[] handed to aggregateDeclUpdates
    aggregated,     \* SpecAgg: the DeclSpec it returned
    llmText,        \* SpecGen: the text the LLM is emitting
    hasOnUpdate,    \* SpecGen: whether the caller of generate supplied onUpdate
    fullContent,    \* SpecGen: callOpenAIStreaming's fullContent
    isFirstChunk,   \* SpecGen: callOpenAIStreaming's isFirstChunk
    streamedText,   \* SpecGen: generate's streamedText
    latestUpdateContext, \* SpecGen: generate's cache {updateCount, spec}
    delivered,      \* SpecGen: the specs passed to onUpdate, in call order
    genState,       \* SpecGen: "idle", "streaming", "resolved" or "rejected"
    genResult,      \* SpecGen: what generate settled with: [spec, error]
    dataStore,      \* the renderer's dataStore (RenderContext.dataStore)
    resValue,       \* SpecResolve: the value handed to resolveStoreVariables
    resOut,         \* SpecResolve: what it returned
    view,           \* SpecRender: declSpec.view, the nodes in view order
    loadedComponents, \* SpecRender: the loadedComponents map, type to render target
    renderKey,      \* SpecRender: the key handed to renderDeclNode
    rendered,       \* SpecRender: what it returned
    renderedComponent, \* SpecRender: what the renderer made of the whole view
    prompt,         \* SpecPage: the page's prompt state (null or a string)
    inputValue,     \* SpecPage: the prompt input's text
    generationKey,  \* SpecPage: the page's generationKey state
    jsonText,       \* SpecPage: the editor text
    isGenerating,   \* SpecPage: the page's isGenerating state
    error,          \* SpecPage: the page's error state (null or a message)
    effectRunRef,   \* SpecPage: effectRunRef.current
    activeRunRef,   \* SpecPage: activeRunRef.current (null or a run)
    effectDeps,     \* SpecPage: the [prompt, generationKey] the effect last ran with
    effectRun,      \* SpecPage: currentRun of the effect whose cleanup is pending, or 0
    microtasks,     \* SpecPage: the runs whose Promise.resolve().then is queued
    runs,           \* SpecPage: per run generate was called for: "streaming", "settled"
    superseded,     \* SpecPage: the runs a later generation was started after
    lastEvent,      \* SpecPage: the handler that ran last: [kind, run]
    heap,           \* SpecStore: the objects and arrays in memory, by address
    pendingUpdates, \* SpecStore: the updaters handed to setDataStore, not yet applied
    handlerCall,    \* SpecStore: the call of an action handler in this tick, or null
    updatesRef,     \* SpecCalls: the updates array in memory
    results,        \* SpecCalls: what the calls of aggregateDeclUpdates returned
    setCalls,       \* SpecCalls: how many times a binding's set was called
    declSpec,       \* SpecCalls, SpecSync: the declSpec the renderer was rendered with last
    specsGiven      \* SpecCalls, SpecSync: how many times the renderer was given a declSpec

aggVars == <<updates, aggregated>>

genVars == <<llmText, hasOnUpdate, fullContent, isFirstChunk, streamedText,
             latestUpdateContext, delivered, genState, genResult>>

resVars == <<dataStore, resValue, resOut>>

renVars == <<view, loadedComponents, renderKey, rendered, renderedComponent>>

pageVars == <<prompt, inputValue, generationKey, jsonText, isGenerating, error,
              effectRunRef, activeRunRef, effectDeps, effectRun, microtasks, runs,
              superseded, lastEvent>>

storeVars == <<heap, pendingUpdates, handlerCall>>

callVars == <<updatesRef, results, setCalls, declSpec, specsGiven>>

vars == <<aggVars, genVars, resVars, renVars, pageVars, storeVars, callVars>>

(***************************************************************************)
(* JavaScript values                                                       *)
(***************************************************************************)
Undef == [t |-> "undef", v |-> 0]
Null == [t |-> "null", v |-> 0]
Bool(b) == [t |-> "bool", v |-> b]
Num(n) == [t |-> "num", v |-> n]
Str(cs) == [t |-> "str", v |-> cs]
Arr(s) == [t |-> "arr", v |-> s]
Obj(f) == [t |-> "obj", v |-> f]

EmptyObj == Obj(<<>>)

\* x == null (null or undefined)
IsNullish(x) == x.t \in {"undef", "null"}

\* typeof x === 'object' && x !== null
IsObject(x) == x.t \in {"obj", "arr"}

IsArray(x) == x.t = "arr"

\* typeof x === 'object' && x !== null && !Array.isArray(x)
IsPlain(x) == x.t = "obj"

IsString(x) == x.t = "str"

\* k in x, for an object x
HasKey(x, k) == x.t = "obj" /\ k \in DOMAIN x.v

\* x[k]: undefined when x has no property k
Get(x, k) == IF HasKey(x, k) THEN x.v[k] ELSE Undef

\* Object.keys(x)
Keys(x) == IF x.t = "obj" THEN DOMAIN x.v ELSE {}

RECURSIVE Join(_)
\* the string made of the characters cs
Join(cs) == IF cs = <<>> THEN "" ELSE Head(cs) \o Join(Tail(cs))

Digits == <<"0", "1", "2", "3", "4", "5", "6", "7", "8", "9">>

\* String(x), for the values a node key takes in the model
JsString(x) ==
    CASE x.t = "str" -> Join(x.v)
      [] x.t = "num" /\ x.v \in 0..9 -> Digits[x.v + 1]
      [] x.t = "bool" -> IF x.v THEN "true" ELSE "false"
      [] OTHER -> "[object Object]"

(***************************************************************************)
(* Delta aggregator (services/decl/generator.ts, services/decl/utils.ts)   *)
(***************************************************************************)
RECURSIVE deepMergeData(_, _)
\* deepMergeData as a shallow merge: a patch value always replaces (Object.assign)
deepMergeData_shallow(existing, patch) ==
    IF IsNullish(patch) \/ ~IsObject(patch) \/ IsArray(patch)
    THEN existing
    ELSE Obj([key \in Keys(existing) \cup Keys(patch) |->
            IF key \in Keys(patch) THEN patch.v[key] ELSE existing.v[key]])

deepMergeData(existing, patch) ==
    IF IsNullish(patch) \/ ~IsObject(patch) \/ IsArray(patch)
    THEN existing
    ELSE Obj([key \in Keys(existing) \cup Keys(patch) |->
            IF key \in Keys(patch)
            THEN LET patchVal == patch.v[key]
                     existingVal == Get(existing, key)
                 IN  IF /\ ~IsNullish(patchVal)
                        /\ IsObject(patchVal)
                        /\ ~IsArray(patchVal)
                        /\ ~IsNullish(existingVal)
                        /\ IsObject(existingVal)
                        /\ ~IsArray(existingVal)
                     THEN deepMergeData(existingVal, patchVal)
                     ELSE patchVal
            ELSE existing.v[key]])

applyDataChunk(current, update) ==
    LET data == Get(update, "data")
    IN  IF IsNullish(data) \/ ~IsObject(data) \/ IsArray(data)
        THEN current
        ELSE deepMergeData(current, data)

\* e.key != null ? String(e.key) : ''
KeyString(e) ==
    IF ~IsNullish(Get(e, "key")) THEN JsString(Get(e, "key")) ELSE ""

\* applyViewChunk replacing a node where it stands: a node of the patch takes
\* the place of the node with its key, and is appended when there is none
applyViewChunk_inPlace(current, update) ==
    LET viewPatch == Get(update, "view")
    IN  IF ~IsArray(viewPatch)
        THEN current
        ELSE LET last(k) == viewPatch.v[CHOOSE i \in DOMAIN viewPatch.v :
                                /\ KeyString(viewPatch.v[i]) = k
                                /\ \A j \in DOMAIN viewPatch.v :
                                      KeyString(viewPatch.v[j]) = k => j <= i]
                 inPatch(k) == \E i \in DOMAIN viewPatch.v : KeyString(viewPatch.v[i]) = k
                 new(el) == \A i \in DOMAIN current : KeyString(current[i]) # KeyString(el)
             IN  [i \in DOMAIN current |->
                     IF inPatch(KeyString(current[i])) THEN last(KeyString(current[i]))
                     ELSE current[i]]
                 \o SelectSeq(viewPatch.v, new)

\* applyViewChunk without the filter: the patch is appended to the view as it is
applyViewChunk_appendOnly(current, update) ==
    LET viewPatch == Get(update, "view")
    IN  IF ~IsArray(viewPatch) THEN current ELSE current \o viewPatch.v

applyViewChunk(current, update) ==
    LET viewPatch == Get(update, "view")
    IN  IF ~IsArray(viewPatch)
        THEN current
        ELSE LET patchKeys == {KeyString(viewPatch.v[i]) : i \in DOMAIN viewPatch.v}
                 keep(el) == KeyString(el) \notin patchKeys
                 kept == SelectSeq(current, keep)
             IN  kept \o viewPatch.v

RECURSIVE AggregateFrom(_, _, _)
\* the for loop of aggregateDeclUpdates, from update i on
AggregateFrom(us, i, acc) ==
    IF i > Len(us)
    THEN acc
    ELSE LET update == us[i]
         IN  IF IsObject(update) /\ HasKey(update, "view")
             THEN AggregateFrom(us, i + 1,
                      [acc EXCEPT !.view = applyViewChunk(acc.view, update)])
             ELSE IF IsObject(update) /\ HasKey(update, "data")
                  THEN AggregateFrom(us, i + 1,
                           [acc EXCEPT !.data = applyDataChunk(acc.data, update)])
                  ELSE AggregateFrom(us, i + 1, acc)

\* a DeclSpec is [view: a sequence of nodes, data: an object]
EmptySpec == [view |-> <<>>, data |-> EmptyObj]

aggregateDeclUpdates(us) == AggregateFrom(us, 1, EmptySpec)

(***************************************************************************)
(* Texts                                                                   *)
(***************************************************************************)
\* the backquote character (a TLA+ string cannot hold one)
BQ == "~"

\* s[i], s.length and s.substring(a, b), with the 0-based offsets of the source
At(s, i) == s[i + 1]
Sub(s, a, b) == SubSeq(s, a + 1, b)

\* \s of a regular expression, and the white space trim() strips
IsWs(c) == c \in {" ", "\n"}

RECURSIVE SkipWs(_, _)
\* the first offset at or after i that holds no white space
SkipWs(s, i) == IF i < Len(s) /\ IsWs(At(s, i)) THEN SkipWs(s, i + 1) ELSE i

RECURSIVE SkipWsBack(_, _)
\* the end offset of s[0..n) once its trailing white space is dropped
SkipWsBack(s, n) == IF n > 0 /\ IsWs(At(s, n - 1)) THEN SkipWsBack(s, n - 1) ELSE n

\* s.trim()
Trim(s) ==
    LET a == SkipWs(s, 0)
    IN  IF a >= Len(s) THEN <<>> ELSE Sub(s, a, SkipWsBack(s, Len(s)))

Max(S) == CHOOSE m \in S : \A n \in S : n <= m
Min(S) == CHOOSE m \in S : \A n \in S : m <= n

\* s.indexOf(c, from)
IndexOf(s, c, from) ==
    LET hits == {i \in from..(Len(s) - 1) : At(s, i) = c}
    IN  IF hits = {} THEN -1 ELSE Min(hits)

\* whether pat occurs in s at offset i
MatchesAt(s, i, pat) == i + Len(pat) <= Len(s) /\ Sub(s, i, i + Len(pat)) = pat

(***************************************************************************)
(* JSON.parse, for the JSON texts of the model: objects, arrays, strings   *)
(* with the escapes \" \\ \/ \n, unsigned integers, null, true and false.  *)
(* A parse result is [ok, val, pos]: pos is the offset after the value.    *)
(***************************************************************************)
ParseFail == [ok |-> FALSE, val |-> Undef, pos |-> 0]
ParseOk(val, pos) == [ok |-> TRUE, val |-> val, pos |-> pos]

IsDigit(c) == \E d \in DOMAIN Digits : Digits[d] = c
DigitVal(c) == (CHOOSE d \in DOMAIN Digits : Digits[d] = c) - 1

RECURSIVE ParseDigits(_, _, _)
ParseDigits(s, i, acc) ==
    IF i < Len(s) /\ IsDigit(At(s, i))
    THEN ParseDigits(s, i + 1, 10 * acc + DigitVal(At(s, i)))
    ELSE ParseOk(Num(acc), i)

\* a number: 0, or a run of digits that does not start with 0
ParseNumber(s, i) ==
    IF At(s, i) = "0" THEN ParseOk(Num(0), i + 1) ELSE ParseDigits(s, i, 0)

RECURSIVE ParseStringBody(_, _, _)
\* the characters of a string literal from offset i on, its opening quote read
ParseStringBody(s, i, acc) ==
    IF i >= Len(s) THEN ParseFail
    ELSE LET c == At(s, i)
         IN  CASE c = "\"" -> ParseOk(Str(acc), i + 1)
               [] c = "\\" ->
                    IF i + 1 >= Len(s) THEN ParseFail
                    ELSE LET e == At(s, i + 1)
                         IN  IF e \in {"\"", "\\", "/"}
                             THEN ParseStringBody(s, i + 2, Append(acc, e))
                             ELSE IF e = "n"
                                  THEN ParseStringBody(s, i + 2, Append(acc, "\n"))
                                  ELSE ParseFail
               [] c = "\n" -> ParseFail
               [] OTHER -> ParseStringBody(s, i + 1, Append(acc, c))

RECURSIVE ParseValue(_, _)
RECURSIVE ParseMembers(_, _, _)
RECURSIVE ParseElements(_, _, _)

\* the members of an object from offset i on; acc holds the members read
ParseMembers(s, i, acc) ==
    IF i >= Len(s) \/ At(s, i) # "\"" THEN ParseFail
    ELSE LET k == ParseStringBody(s, i + 1, <<>>)
         IN  IF ~k.ok THEN ParseFail
             ELSE LET j == SkipWs(s, k.pos)
                  IN  IF j >= Len(s) \/ At(s, j) # ":" THEN ParseFail
                      ELSE LET v == ParseValue(s, j + 1)
                           IN  IF ~v.ok THEN ParseFail
                               ELSE LET m == SkipWs(s, v.pos)
                                        acc2 == (Join(k.val.v) :> v.val) @@ acc
                                    IN  IF m >= Len(s) THEN ParseFail
                                        ELSE IF At(s, m) = ","
                                             THEN ParseMembers(s, SkipWs(s, m + 1), acc2)
                                             ELSE IF At(s, m) = "}"
                                                  THEN ParseOk(Obj(acc2), m + 1)
                                                  ELSE ParseFail

\* the elements of an array from offset i on; acc holds the elements read
ParseElements(s, i, acc) ==
    LET v == ParseValue(s, i)
    IN  IF ~v.ok THEN ParseFail
        ELSE LET m == SkipWs(s, v.pos)
             IN  IF m >= Len(s) THEN ParseFail
                 ELSE IF At(s, m) = ","
                      THEN ParseElements(s, m + 1, Append(acc, v.val))
                      ELSE IF At(s, m) = "]"
                           THEN ParseOk(Arr(Append(acc, v.val)), m + 1)
                           ELSE ParseFail

ParseValue(s, i0) ==
    LET i == SkipWs(s, i0)
    IN  IF i >= Len(s) THEN ParseFail
        ELSE LET c == At(s, i)
             IN  CASE c = "{" ->
                        LET j == SkipWs(s, i + 1)
                        IN  IF j < Len(s) /\ At(s, j) = "}"
                            THEN ParseOk(EmptyObj, j + 1)
                            ELSE ParseMembers(s, j, <<>>)
                   [] c = "[" ->
                        LET j == SkipWs(s, i + 1)
                        IN  IF j < Len(s) /\ At(s, j) = "]"
                            THEN ParseOk(Arr(<<>>), j + 1)
                            ELSE ParseElements(s, j, <<>>)
                   [] c = "\"" -> ParseStringBody(s, i + 1, <<>>)
                   [] IsDigit(c) -> ParseNumber(s, i)
                   [] MatchesAt(s, i, <<"n", "u", "l", "l">>) -> ParseOk(Null, i + 4)
                   [] MatchesAt(s, i, <<"t", "r", "u", "e">>) -> ParseOk(Bool(TRUE), i + 4)
                   [] MatchesAt(s, i, <<"f", "a", "l", "s", "e">>) ->
                        ParseOk(Bool(FALSE), i + 5)
                   [] OTHER -> ParseFail

\* JSON.parse(s): ok is FALSE where JSON.parse throws
JsonParse(s) ==
    LET r == ParseValue(s, 0)
    IN  IF r.ok /\ SkipWs(s, r.pos) = Len(s) THEN r ELSE ParseFail

(***************************************************************************)
(* Incremental JSON extractor (services/decl/utils.ts)                     *)
(***************************************************************************)
Fence == <<BQ, BQ, BQ>>

RECURSIVE LastNewline(_, _, _)
\* the offset of the last newline of the white space run s[i..), or -1
LastNewline(s, i, found) ==
    IF i < Len(s) /\ IsWs(At(s, i))
    THEN LastNewline(s, i + 1, IF At(s, i) = "\n" THEN i ELSE found)
    ELSE found

\* the first offset at or after i where a fence starts, or Len(s)
FindFence(s, i) ==
    LET hits == {j \in i..(Len(s) - 1) : MatchesAt(s, j, Fence)}
    IN  IF hits = {} THEN Len(s) ELSE Min(hits)

\* the offset after the opening fence at i and its optional json tag
AfterTag(s, i) == IF MatchesAt(s, i + 3, <<"j", "s", "o", "n">>) THEN i + 7 ELSE i + 3

\* text.match(/```(?:json)?\s*\n([\s\S]*?)(?:```|$)/): [found, group], group is
\* match[1]; the match starts at the first fence that white space ending in a
\* newline follows
MatchJsonBlock(s) ==
    LET opens == {i \in 0..(Len(s) - 1) :
                     MatchesAt(s, i, Fence) /\ LastNewline(s, AfterTag(s, i), -1) # -1}
    IN  IF opens = {} THEN [found |-> FALSE, group |-> <<>>]
        ELSE LET nl == LastNewline(s, AfterTag(s, Min(opens)), -1)
             IN  [found |-> TRUE, group |-> Sub(s, nl + 1, FindFence(s, nl + 1))]

\* the startIndex every caller passes (the parameter's default)
StartIndex == 0

ParseResult(value, startIndex, endIndex) ==
    [value |-> value, startIndex |-> startIndex, endIndex |-> endIndex]

\* text.replace(/,\s*$/, '')
StripTrailingComma(s) ==
    LET n == SkipWsBack(s, Len(s))
    IN  IF n > 0 /\ At(s, n - 1) = "," THEN Sub(s, 0, n - 1) ELSE s

\* what a return after JSON.parse in try, with its catch, returns
ParseOutcome(parsed, start, endIndex) ==
    IF parsed.ok THEN ParseResult(parsed.val, start, endIndex)
    ELSE ParseResult(Null, start, -1)

\* lastCompleteElementEnd once the closing char at offset i took depth down
CompleteElementEnd_first(isArray, depth, char, i, last) ==
    IF isArray /\ depth = 1 /\ char = "}" /\ last < 0 THEN i + 1 ELSE last

CompleteElementEnd(isArray, depth, char, i, last) ==
    IF isArray /\ depth = 1 /\ char = "}" THEN i + 1 ELSE last

\* the locals of the scanning loop; returned: the loop returned, with result
ScanStart ==
    [depth |-> 0, inString |-> FALSE, escapeNext |-> FALSE,
     lastCompleteElementEnd |-> -1, returned |-> FALSE,
     result |-> ParseResult(Null, -1, -1)]

\* one iteration of the scanning loop, at offset i
ScanStep(jsonTxt, start, isArray, st, i) ==
    LET char == At(jsonTxt, i)
        close == IF isArray THEN "]" ELSE "}"
    IN  IF st.escapeNext THEN [st EXCEPT !.escapeNext = FALSE]
        ELSE IF char = "\\" THEN [st EXCEPT !.escapeNext = TRUE]
        ELSE IF char = "\"" THEN [st EXCEPT !.inString = ~st.inString]
        ELSE IF st.inString THEN st
        ELSE IF char \in {"{", "["} THEN [st EXCEPT !.depth = st.depth + 1]
        ELSE IF char \in {"}", "]"}
        THEN LET depth == st.depth - 1
                 last == CompleteElementEnd(isArray, depth, char, i,
                                            st.lastCompleteElementEnd)
             IN  IF depth = 0 /\ char = close
                 THEN [st EXCEPT
                         !.depth = depth,
                         !.lastCompleteElementEnd = last,
                         !.returned = TRUE,
                         !.result = ParseOutcome(
                                        JsonParse(Trim(Sub(jsonTxt, start, i + 1))),
                                        start, i + 1)]
                 ELSE [st EXCEPT !.depth = depth, !.lastCompleteElementEnd = last]
        ELSE st

RECURSIVE ScanLoop(_, _, _, _, _, _)
\* the scanning loop over the offsets lo..hi-1, from the locals st; the range
\* is scanned half by half, each half from the locals the one before left
ScanLoop(jsonTxt, start, isArray, st, lo, hi) ==
    IF st.returned \/ lo >= hi THEN st
    ELSE IF hi = lo + 1 THEN ScanStep(jsonTxt, start, isArray, st, lo)
    ELSE LET mid == (lo + hi) \div 2
             left == ScanLoop(jsonTxt, start, isArray, st, lo, mid)
         IN  ScanLoop(jsonTxt, start, isArray, left, mid, hi)

\* the code after the scanning loop: the value is incomplete. A failed parse
\* falls through to the last return, which ParseOutcome's failure equals
ScanIncomplete(jsonTxt, start, isArray, lastCompleteElementEnd) ==
    IF isArray /\ lastCompleteElementEnd > 0
    THEN LET raw == StripTrailingComma(Trim(Sub(jsonTxt, start + 1, lastCompleteElementEnd)))
         IN  ParseOutcome(JsonParse(<<"[">> \o raw \o <<"]">>), start,
                          lastCompleteElementEnd)
    ELSE ParseResult(Null, start, -1)

\* the scan from the opening bracket at start, from the loop's locals st on
ScanOutcome(jsonTxt, start, st) ==
    IF st.returned THEN st.result
    ELSE ScanIncomplete(jsonTxt, start, At(jsonTxt, start) = "[",
                        st.lastCompleteElementEnd)

\* the extractor once the fast path gave fast
ScanFrom(jsonTxt, fast) ==
    IF fast.ok THEN ParseResult(fast.val, StartIndex, Len(jsonTxt))
    ELSE LET arrayStart == IndexOf(jsonTxt, "[", StartIndex)
             objectStart == IndexOf(jsonTxt, "{", StartIndex)
             start == IF arrayStart # -1
                         /\ (objectStart = -1 \/ arrayStart <= objectStart)
                      THEN arrayStart ELSE objectStart
         IN  IF start = -1 THEN ParseResult(Null, -1, -1)
             ELSE ScanOutcome(jsonTxt, start,
                              ScanLoop(jsonTxt, start, At(jsonTxt, start) = "[",
                                       ScanStart, start, Len(jsonTxt)))

\* the extractor on the text it settled on: the fast path, then the scan
ParseJsonText(jsonTxt) ==
    LET textFromStart == Trim(Sub(jsonTxt, StartIndex, Len(jsonTxt)))
    IN  ScanFrom(jsonTxt,
                 IF textFromStart # <<>> THEN JsonParse(textFromStart) ELSE ParseFail)

\* jsonTxt: the payload of the code block when match found a non-empty one
JsonText(text, match) ==
    IF match.found /\ match.group # <<>> THEN Trim(match.group) ELSE text

tryParseJsonFromText(text) ==
    IF Trim(text) = <<>> THEN ParseResult(Null, -1, -1)
    ELSE ParseJsonText(JsonText(text, MatchJsonBlock(text)))

\* toDeclUpdates: the update objects of a parsed array, as a sequence
toDeclUpdates(parsed) ==
    IF ~IsArray(parsed) THEN <<>>
    ELSE LET isUpdate(item) ==
                 /\ ~IsNullish(item)
                 /\ IsObject(item)
                 /\ (HasKey(item, "view") \/ HasKey(item, "data"))
         IN  SelectSeq(parsed.v, isUpdate)

(***************************************************************************)
(* SpecAgg: aggregateDeclUpdates on every sequence of at most MaxUpdates   *)
(* updates drawn from UpdatePool.                                          *)
(***************************************************************************)
MaxUpdates == 3

\* the longest chunk of text a stream delivers short of the whole rest
MaxChunk == 2

Node(k, ty) == Obj([key |-> Str(<<k>>), type |-> Str(<<ty>>)])
ViewUpdate(nodes) == Obj([view |-> Arr(nodes)])
DataUpdate(d) == Obj([data |-> d])

StrFirst == Str(<<"A">>)
StrLast == Str(<<"B">>)

UpdatePool ==
    { ViewUpdate(<<Node("a", "X")>>),
      ViewUpdate(<<Node("a", "Y")>>),
      ViewUpdate(<<Node("b", "X"), Node("a", "X")>>),
      ViewUpdate(<<Node("a", "X"), Node("a", "Y")>>),
      ViewUpdate(<<Node("b", "Y")>>),
      ViewUpdate(<<>>),
      Obj([view |-> Str(<<"x">>)]),
      DataUpdate(Obj([profile |-> Obj([first |-> StrFirst])])),
      DataUpdate(Obj([profile |-> Obj([last |-> StrLast])])),
      DataUpdate(Obj([profile |-> Null])),
      DataUpdate(Obj([tags |-> Arr(<<Str(<<"x">>)>>)])),
      DataUpdate(Obj([tags |-> Arr(<<Str(<<"y">>), Str(<<"z">>)>>)])),
      DataUpdate(Arr(<<Num(1)>>)) }

\* the aggregator on its own: no update yet
AggIdle ==
    /\ updates = <<>>
    /\ aggregated = aggregateDeclUpdates(<<>>)

\* generate before it is called
GenIdle ==
    /\ llmText = <<>>
    /\ hasOnUpdate = FALSE
    /\ fullContent = <<>>
    /\ isFirstChunk = TRUE
    /\ streamedText = <<>>
    /\ latestUpdateContext = [updateCount |-> 0, spec |-> EmptySpec]
    /\ delivered = <<>>
    /\ genState = "idle"
    /\ genResult = [spec |-> EmptySpec, error |-> ""]

\* the renderer before it is mounted
RenIdle ==
    /\ dataStore = EmptyObj
    /\ resValue = Undef
    /\ resOut = Undef
    /\ view = <<>>
    /\ loadedComponents = <<>>
    /\ renderKey = ""
    /\ rendered = Null
    /\ renderedComponent = Null

\* the prompt the input starts with
DEFAULT_PROMPT ==
    <<"A", " ", "f", "o", "r", "m", " ", "t", "o", " ", "c", "r", "e", "a", "t", "e",
      " ", "a", " ", "L", "i", "n", "k", "d", "I", "n", " ", "P", "r", "o", "f", "i",
      "l", "e", ",", " ", "w", "i", "t", "h", " ", "a", "l", "l", " ", "t", "h", "e",
      " ", "r", "e", "q", "u", "i", "r", "e", "d", " ", "a", "n", "d", " ", "o", "p",
      "t", "i", "o", "n", "a", "l", " ", "f", "i", "e", "l", "d", "s">>

\* the page before it is mounted: its initial state and refs
PageIdle ==
    /\ prompt = Null
    /\ inputValue = DEFAULT_PROMPT
    /\ generationKey = 0
    /\ jsonText = <<>>
    /\ isGenerating = FALSE
    /\ error = Null
    /\ effectRunRef = 0
    /\ activeRunRef = Null
    /\ effectDeps = <<Null, 0>>
    /\ effectRun = 0
    /\ microtasks = <<>>
    /\ runs = <<>>
    /\ superseded = {}
    /\ lastEvent = [kind |-> "mount", run |-> 0]

\* no object in memory, no updater pending, no handler called
StoreIdle ==
    /\ heap = <<>>
    /\ pendingUpdates = <<>>
    /\ handlerCall = Null

\* no call of aggregateDeclUpdates on an array in memory
CallIdle ==
    /\ updatesRef = Null
    /\ results = <<>>
    /\ setCalls = 0
    /\ declSpec = Undef
    /\ specsGiven = 0

AggInit == AggIdle /\ GenIdle /\ RenIdle /\ PageIdle /\ StoreIdle /\ CallIdle

\* aggregateDeclUpdates is called on the updates received so far plus one
Aggregate(u) ==
    /\ Len(updates) < MaxUpdates
    /\ updates' = Append(updates, u)
    /\ aggregated' = aggregateDeclUpdates(updates')
    /\ UNCHANGED <<genVars, resVars, renVars, pageVars, storeVars, callVars>>

AggNext == \E u \in UpdatePool : Aggregate(u)

SpecAgg == AggInit /\ [][AggNext]_vars

(***************************************************************************)
(* Streaming orchestrator (services/decl/generator.ts, services/openai.ts) *)
(***************************************************************************)
\* updates.length > latestUpdateContext.updateCount
ShouldNotify_always(updatesLength, updateCount) == TRUE

ShouldNotify(updatesLength, updateCount) == updatesLength > updateCount

\* toDeclUpdates(tryParseJsonFromText(text).value)
ParseUpdates(text) == toDeclUpdates(tryParseJsonFromText(text).value)

\* handleStreamChunk once streamedText is parsed into updates
NotifyUpdates(updates_) ==
    IF ShouldNotify(Len(updates_), latestUpdateContext.updateCount)
    THEN /\ latestUpdateContext' =
                [updateCount |-> Len(updates_), spec |-> aggregateDeclUpdates(updates_)]
         /\ delivered' = Append(delivered, latestUpdateContext'.spec)
    ELSE UNCHANGED <<latestUpdateContext, delivered>>

\* handleStreamChunk({type, text})
handleStreamChunk(type, text) ==
    /\ streamedText' = IF type = "replace" THEN text ELSE streamedText \o text
    /\ NotifyUpdates(ParseUpdates(streamedText'))

Settled(state, spec, message) == [state |-> state, spec |-> spec, error |-> message]

\* generate once the response is parsed into updates_: what it settles with
generateSettle(updates_, cache) ==
    IF Len(updates_) = 0
    THEN Settled("rejected", EmptySpec,
                 "Invalid response: expected a JSON array of updates")
    ELSE IF Len(updates_) = cache.updateCount
         THEN Settled("resolved", cache.spec, "")
         ELSE Settled("resolved", aggregateDeclUpdates(updates_), "")

\* callOpenAIStreaming once the reader is done, and generate after it
streamingFinish(content, cache) ==
    IF content = <<>>
    THEN Settled("rejected", EmptySpec, "No content in OpenAI response")
    ELSE generateSettle(ParseUpdates(content), cache)

\* the promise generate returned settles
Settle(r) ==
    /\ genState' = r.state
    /\ genResult' = [spec |-> r.spec, error |-> r.error]

(***************************************************************************)
(* SpecGen: one call of generate. The LLM emits one of Texts, delivered in *)
(* chunks of any length up to MaxChunk or as the whole rest; the stream    *)
(* may end after any chunk (a response cut short), or fail.                *)
(***************************************************************************)
\* the partial-stream example of the spec, completed:
\*   [{"view":[{"key":"a","type":"Card"}]},{"data":{"x":1}},{"view":[{"key":"b"}]}]
TextMixed ==
    <<"[", "{", "\"", "v", "i", "e", "w", "\"", ":", "[", "{", "\"", "k", "e", "y", "\"",
      ":", "\"", "a", "\"", ",", "\"", "t", "y", "p", "e", "\"", ":", "\"", "C", "a", "r",
      "d", "\"", "}", "]", "}", ",", "{", "\"", "d", "a", "t", "a", "\"", ":", "{", "\"",
      "x", "\"", ":", "1", "}", "}", ",", "{", "\"", "v", "i", "e", "w", "\"", ":", "[",
      "{", "\"", "k", "e", "y", "\"", ":", "\"", "b", "\"", "}", "]", "}", "]">>

\* string values holding brackets, braces, an escaped quote and an escaped backslash:
\*   [{"data":{"s":"]}\"["}},{"data":{"t":"{[\\"}}]
TextStrings ==
    <<"[", "{", "\"", "d", "a", "t", "a", "\"", ":", "{", "\"", "s", "\"", ":", "\"", "]",
      "}", "\\", "\"", "[", "\"", "}", "}", ",", "{", "\"", "d", "a", "t", "a", "\"", ":",
      "{", "\"", "t", "\"", ":", "\"", "{", "[", "\\", "\\", "\"", "}", "}", "]">>

\* a delta repeated, and an empty view delta:
\*   [{"data":{"x":1}},{"data":{"x":1}},{"view":[]}]
TextRepeat ==
    <<"[", "{", "\"", "d", "a", "t", "a", "\"", ":", "{", "\"", "x", "\"", ":", "1", "}",
      "}", ",", "{", "\"", "d", "a", "t", "a", "\"", ":", "{", "\"", "x", "\"", ":", "1",
      "}", "}", ",", "{", "\"", "v", "i", "e", "w", "\"", ":", "[", "]", "}", "]">>

\* a key redefined by a later delta:
\*   [{"view":[{"key":"a"}]},{"view":[{"key":"a","type":"Y"}]}]
TextReplace ==
    <<"[", "{", "\"", "v", "i", "e", "w", "\"", ":", "[", "{", "\"", "k", "e", "y", "\"",
      ":", "\"", "a", "\"", "}", "]", "}", ",", "{", "\"", "v", "i", "e", "w", "\"", ":",
      "[", "{", "\"", "k", "e", "y", "\"", ":", "\"", "a", "\"", ",", "\"", "t", "y", "p",
      "e", "\"", ":", "\"", "Y", "\"", "}", "]", "}", "]">>

\* an array written with white space:
\*   [\n {"data": {"x": 1}} ,\n {"data": {"y": 2}}\n]
TextSpaced ==
    <<"[", "\n", " ", "{", "\"", "d", "a", "t", "a", "\"", ":", " ", "{", "\"", "x", "\"",
      ":", " ", "1", "}", "}", " ", ",", "\n", " ", "{", "\"", "d", "a", "t", "a", "\"",
      ":", " ", "{", "\"", "y", "\"", ":", " ", "2", "}", "}", "\n", "]">>

\* an array in a fenced code block:
\*   ```json\n[{"data":{"x":1}},{"data":{"y":2}}]\n```
TextFenced ==
    <<BQ, BQ, BQ, "j", "s", "o", "n", "\n", "[", "{", "\"", "d", "a", "t", "a", "\"", ":",
      "{", "\"", "x", "\"", ":", "1", "}", "}", ",", "{", "\"", "d", "a", "t", "a", "\"",
      ":", "{", "\"", "y", "\"", ":", "2", "}", "}", "]", "\n", BQ, BQ, BQ>>

\* an array quoted in the prose, then the answer in a fenced code block:
\*   [{"data":{"a":1}}]\n```json\n[{"data":{"b":2}}]\n```
TextTwoBlocks ==
    <<"[", "{", "\"", "d", "a", "t", "a", "\"", ":", "{", "\"", "a", "\"", ":", "1", "}",
      "}", "]", "\n", BQ, BQ, BQ, "j", "s", "o", "n", "\n", "[", "{", "\"", "d", "a", "t",
      "a", "\"", ":", "{", "\"", "b", "\"", ":", "2", "}", "}", "]", "\n", BQ, BQ, BQ>>

\* an array that holds no update object:
\*   [1,{"x":1}]
TextNoUpdates ==
    <<"[", "1", ",", "{", "\"", "x", "\"", ":", "1", "}", "]">>

\* an object, not an array:
\*   {"data":{}}
TextObject ==
    <<"{", "\"", "d", "a", "t", "a", "\"", ":", "{", "}", "}">>

\* an array of two updates quoted in the prose, then the answer, one update, in
\* a fenced code block:
\*   [{"view":[{"key":"a"}]},{"data":{"x":1}}]\n```json\n[{"view":[{"key":"b"}]}]\n```
TextShrinks ==
    <<"[", "{", "\"", "v", "i", "e", "w", "\"", ":", "[", "{", "\"", "k", "e", "y", "\"",
      ":", "\"", "a", "\"", "}", "]", "}", ",", "{", "\"", "d", "a", "t", "a", "\"", ":",
      "{", "\"", "x", "\"", ":", "1", "}", "}", "]", "\n", BQ, BQ, BQ, "j", "s", "o",
      "n", "\n", "[", "{", "\"", "v", "i", "e", "w", "\"", ":", "[", "{", "\"", "k", "e",
      "y", "\"", ":", "\"", "b", "\"", "}", "]", "}", "]", "\n", BQ, BQ, BQ>>

Texts ==
    {TextMixed, TextStrings, TextRepeat, TextReplace, TextSpaced, TextFenced,
     TextTwoBlocks, TextShrinks, TextNoUpdates, TextObject}

GenInit ==
    /\ AggIdle
    /\ RenIdle
    /\ PageIdle
    /\ StoreIdle
    /\ CallIdle
    /\ llmText \in Texts
    /\ hasOnUpdate \in BOOLEAN
    /\ fullContent = <<>>
    /\ isFirstChunk = TRUE
    /\ streamedText = <<>>
    /\ latestUpdateContext = [updateCount |-> 0, spec |-> EmptySpec]
    /\ delivered = <<>>
    /\ genState = "streaming"
    /\ genResult = [spec |-> EmptySpec, error |-> ""]

\* the reader delivers the next n characters as one delta
StreamChunk(n) ==
    /\ genState = "streaming"
    /\ n >= 1
    /\ Len(fullContent) + n <= Len(llmText)
    /\ LET delta == SubSeq(llmText, Len(fullContent) + 1, Len(fullContent) + n)
       IN  /\ fullContent' = fullContent \o delta
           /\ IF hasOnUpdate
              THEN /\ handleStreamChunk(IF isFirstChunk THEN "replace" ELSE "append", delta)
                   /\ isFirstChunk' = FALSE
              ELSE UNCHANGED <<streamedText, latestUpdateContext, delivered, isFirstChunk>>
    /\ UNCHANGED <<llmText, hasOnUpdate, genState, genResult, aggVars, resVars,
                   renVars, pageVars, storeVars, callVars>>

\* the reader is done: callOpenAIStreaming returns and generate settles
StreamEnd ==
    /\ genState = "streaming"
    /\ Settle(streamingFinish(fullContent, latestUpdateContext))
    /\ UNCHANGED <<llmText, hasOnUpdate, fullContent, isFirstChunk, streamedText,
                   latestUpdateContext, delivered, aggVars, resVars, renVars, pageVars, storeVars, callVars>>

\* the transport fails: reader.read() rejects, and generate with it
StreamError ==
    /\ genState = "streaming"
    /\ genState' = "rejected"
    /\ genResult' = [spec |-> EmptySpec, error |-> "network error"]
    /\ UNCHANGED <<llmText, hasOnUpdate, fullContent, isFirstChunk, streamedText,
                   latestUpdateContext, delivered, aggVars, resVars, renVars, pageVars, storeVars, callVars>>

GenNext ==
    \/ \E n \in 1..MaxChunk : StreamChunk(n)
    \/ StreamChunk(Len(llmText) - Len(fullContent))
    \/ StreamEnd
    \/ StreamError

SpecGen == GenInit /\ [][GenNext]_vars

(***************************************************************************)
(* Claims on the aggregator, checked under SpecAgg                         *)
(***************************************************************************)
\* the updates that applyViewChunk applies: a view key holding an array
IsViewDelta(u) == IsObject(u) /\ HasKey(u, "view") /\ IsArray(Get(u, "view"))

DeltaNodes(u) == Get(u, "view").v

DeltaKeys(u) == {KeyString(DeltaNodes(u)[i]) : i \in DOMAIN DeltaNodes(u)}

\* the indices of the view deltas of updates that carry key k
DeltasWith(k) ==
    {i \in DOMAIN updates : IsViewDelta(updates[i]) /\ k \in DeltaKeys(updates[i])}

StreamedKeys ==
    UNION {DeltaKeys(updates[i]) : i \in {j \in DOMAIN updates : IsViewDelta(updates[j])}}

NodesKeyed(nodes, k) == LET keyed(e) == KeyString(e) = k IN SelectSeq(nodes, keyed)

\* C1: for every key carried by view deltas, the nodes of the aggregated view
\* with that key are exactly the nodes the last such delta carries for it; no
\* node of an earlier delta survives (last write wins by key).
C1_LastWriteWinsByKey ==
    \A k \in StreamedKeys :
        NodesKeyed(aggregated.view, k)
            = NodesKeyed(DeltaNodes(updates[Max(DeltasWith(k))]), k)

\* C1 witness: a key was carried by two deltas with different definitions, and
\* the view holds the later one only (the spec's example: "a" of type "Y").
C1_Witness ==
    /\ updates = <<ViewUpdate(<<Node("a", "X")>>), ViewUpdate(<<Node("a", "Y")>>)>>
    /\ aggregated.view = <<Node("a", "Y")>>

\* C9: no two nodes of the aggregated view have the same key.
C9_KeysUnique ==
    \A i, j \in DOMAIN aggregated.view :
        i # j => KeyString(aggregated.view[i]) # KeyString(aggregated.view[j])

RECURSIVE IsDeepMerge(_, _, _)
\* result is the deep merge of patch into existing, as C3 words it
IsDeepMerge(result, existing, patch) ==
    /\ IsPlain(result)
    /\ Keys(result) = Keys(existing) \cup Keys(patch)
    /\ \A k \in Keys(result) :
          IF k \notin Keys(patch)
          THEN result.v[k] = existing.v[k]
          ELSE IF IsPlain(patch.v[k]) /\ IsPlain(Get(existing, k))
               THEN IsDeepMerge(result.v[k], existing.v[k], patch.v[k])
               ELSE result.v[k] = patch.v[k]

IsDataDelta(u) ==
    IsObject(u) /\ ~HasKey(u, "view") /\ HasKey(u, "data") /\ IsPlain(Get(u, "data"))

\* C3: when the last update is a data delta, the aggregated data is the deep
\* merge of its patch into the data aggregated before it: mappings merge
\* recursively, every other patch value replaces, absent keys keep their value.
C3_DeepMerge ==
    (updates # <<>> /\ IsDataDelta(updates[Len(updates)])) =>
        IsDeepMerge(aggregated.data,
                    aggregateDeclUpdates(SubSeq(updates, 1, Len(updates) - 1)).data,
                    Get(updates[Len(updates)], "data"))

\* C3 witness: the spec's two examples in one run: profile.first and
\* profile.last merge, and the second tags array replaces the first.
C3_Witness ==
    /\ updates = <<DataUpdate(Obj([profile |-> Obj([first |-> StrFirst])])),
                   DataUpdate(Obj([tags |-> Arr(<<Str(<<"x">>)>>)])),
                   DataUpdate(Obj([profile |-> Obj([last |-> StrLast])]))>>
    /\ aggregated.data = Obj([profile |-> Obj([first |-> StrFirst, last |-> StrLast]),
                              tags |-> Arr(<<Str(<<"x">>)>>)])

(***************************************************************************)
(* Claims on the extractor and the orchestrator, checked under SpecGen     *)
(***************************************************************************)
\* the texts that are a JSON array of update objects and nothing else
UpdateArrayTexts == {TextMixed, TextStrings, TextRepeat, TextReplace, TextSpaced}

RECURSIVE ElementsFrom(_, _, _)
\* the elements of the array text s from offset i on, each with the offset
\* after it, as JSON.parse reads them
ElementsFrom(s, i, acc) ==
    LET v == ParseValue(s, i)
    IN  IF ~v.ok THEN acc
        ELSE LET m == SkipWs(s, v.pos)
                 acc2 == Append(acc, [val |-> v.val, end |-> v.pos])
             IN  IF m < Len(s) /\ At(s, m) = "," THEN ElementsFrom(s, m + 1, acc2)
                 ELSE acc2

\* the top-level elements of the array text s that end within its first n
\* characters, in order
ClosedElements(s, n) ==
    LET all == ElementsFrom(s, IndexOf(s, "[", 0) + 1, <<>>)
        closed(e) == e.end <= n
        within == SelectSeq(all, closed)
    IN  [i \in DOMAIN within |-> within[i].val]

ValueIsNullOr(value, elements) == value = Null \/ value = Arr(elements)

\* C2: on every prefix of a JSON array of update objects, cut at any character
\* (inside strings holding brackets, braces and escapes included), the
\* extractor returns a value that is null or the array of exactly the top-level
\* elements closed within the prefix, in order.
C2_PrefixElements ==
    llmText \in UpdateArrayTexts =>
        ValueIsNullOr(tryParseJsonFromText(fullContent).value,
                      ClosedElements(llmText, Len(fullContent)))

\* the text is cut inside the second element's string value, after "{[" of it,
\* and the extractor gave the first element alone
C2_Witness ==
    /\ llmText = TextStrings
    /\ hasOnUpdate
    /\ Len(fullContent) = 40
    /\ tryParseJsonFromText(fullContent).value = Arr(ClosedElements(llmText, 40))
    /\ Len(ClosedElements(llmText, 40)) = 1
    /\ latestUpdateContext.updateCount = 1

NotifiedOnGrowth(ctx, ctx2, out, out2, updates_) ==
    out2 # out =>
        /\ ctx2.updateCount > ctx.updateCount
        /\ ctx2.updateCount = Len(updates_)
        /\ out2 = Append(out, aggregateDeclUpdates(updates_))

C6_ResultIsFold ==
    genState = "resolved" =>
        genResult.spec = aggregateDeclUpdates(ParseUpdates(fullContent))

\* JSON.parse of the text, or of the payload of its code block, gives an
\* array that holds an update object
ParsesAsUpdateArray(text) ==
    LET r == JsonParse(Trim(JsonText(text, MatchJsonBlock(text))))
    IN  r.ok /\ IsArray(r.val) /\ Len(toDeclUpdates(r.val)) > 0

\* C7: generate does not resolve when the complete response text does not
\* parse as a JSON array of updates.
C7_RejectsUnparsable ==
    genState = "resolved" => ParsesAsUpdateArray(fullContent)

(***************************************************************************)
(* Store paths and the variable resolver (services/decl/utils.ts)          *)
(***************************************************************************)
\* s.startsWith(c) and s.endsWith(c), c one character
StartsWith(s, c) == Len(s) >= 1 /\ s[1] = c
EndsWith(s, c) == Len(s) >= 1 /\ s[Len(s)] = c

\* s.slice(a, b), a >= 0; a negative b counts from the end
Slice(s, a, b) ==
    LET e == IF b < 0 THEN Max({Len(s) + b, 0}) ELSE Min({b, Len(s)})
    IN  IF a >= e THEN <<>> ELSE Sub(s, a, e)

\* s.includes(c)
Includes(s, c) == \E i \in DOMAIN s : s[i] = c

RECURSIVE Split(_, _)
\* s.split(c)
Split(s, c) ==
    LET i == IndexOf(s, c, 0)
    IN  IF i = -1 THEN <<s>>
        ELSE <<Sub(s, 0, i)>> \o Split(Sub(s, i + 1, Len(s)), c)

\* whether part is the canonical text of an array index
IsIndex(part) ==
    /\ part # <<>>
    /\ \A i \in DOMAIN part : IsDigit(part[i])
    /\ (Len(part) = 1 \/ part[1] # "0")

\* current[part] for a mapping or an array (own properties)
GetProp(current, part) ==
    IF current.t = "obj" THEN Get(current, Join(part))
    ELSE IF current.t = "arr"
    THEN IF part = <<"l", "e", "n", "g", "t", "h">> THEN Num(Len(current.v))
         ELSE IF IsIndex(part) /\ ParseDigits(part, 0, 0).val.v < Len(current.v)
              THEN current.v[ParseDigits(part, 0, 0).val.v + 1]
              ELSE Undef
    ELSE Undef

RECURSIVE GetNestedFrom(_, _, _)
\* the loop of getNestedValue from the i-th part on
GetNestedFrom(current, parts, i) ==
    IF i > Len(parts) THEN current
    ELSE IF IsNullish(current) \/ ~IsObject(current) THEN Undef
    ELSE GetNestedFrom(GetProp(current, parts[i]), parts, i + 1)

getNestedValue(obj, path) == GetNestedFrom(obj, Split(path, "."), 1)

RECURSIVE resolveStoreVariables(_, _)
resolveStoreVariables(value, store) ==
    IF IsString(value) /\ StartsWith(value.v, "{") /\ EndsWith(value.v, "}")
    THEN LET path == Trim(Slice(value.v, 1, -1))
         IN  IF Includes(path, ".") THEN getNestedValue(store, path)
             ELSE GetProp(store, path)
    ELSE IF IsPlain(value)
    THEN Obj([k \in DOMAIN value.v |-> resolveStoreVariables(value.v[k], store)])
    ELSE IF IsArray(value)
    THEN Arr([i \in DOMAIN value.v |-> resolveStoreVariables(value.v[i], store)])
    ELSE value

(***************************************************************************)
(* SpecResolve: resolveStoreVariables on the values of ResolvePool,        *)
(* against each store of StorePool.                                        *)
(***************************************************************************)
StorePool ==
    { EmptyObj,
      Obj([count |-> Num(7), a |-> Str(<<"A">>), b |-> Str(<<"B">>)]),
      Obj([count |-> Str(<<"{", "a", "}">>), a |-> Num(1),
           user |-> Obj([name |-> Str(<<"B", "o", "b">>), n |-> Null])]),
      Obj([count |-> Num(0), b |-> Bool(TRUE),
           user |-> Obj([name |-> Obj([first |-> Str(<<"B">>)]),
                         list |-> Arr(<<Num(1), Num(2)>>)])]),
      Obj([a |-> Null, missing |-> Arr(<<>>)]) }

ResolvePool ==
    { Str(<<"{", "c", "o", "u", "n", "t", "}">>),
      Str(<<"{", " ", "c", "o", "u", "n", "t", " ", "}">>),
      Str(<<"{", "u", "s", "e", "r", ".", "n", "a", "m", "e", "}">>),
      Str(<<"{", "u", "s", "e", "r", ".", "n", ".", "x", "}">>),
      Str(<<"{", "u", "s", "e", "r", ".", "l", "i", "s", "t", ".", "1", "}">>),
      Str(<<"{", "m", "i", "s", "s", "i", "n", "g", "}">>),
      Str(<<"{", "a", "}", "-", "{", "b", "}">>),
      Str(<<"{", "a", "}", "{", "b", "}">>),
      Str(<<"x", "{", "a", "}">>),
      Str(<<"{", "a", "}", "x">>),
      Str(<<"H", "i", " ", "{", "a", "}", "!">>),
      Str(<<"c", "o", "u", "n", "t">>),
      Str(<<>>),
      Str(<<"{">>),
      Str(<<"}">>),
      Str(<<"{", "}">>),
      Str(<<"{", "a">>),
      Str(<<" ", "{", "a", "}">>),
      Num(7),
      Null,
      Undef,
      Bool(TRUE),
      Obj([label |-> Str(<<"{", "c", "o", "u", "n", "t", "}">>), n |-> Num(1)]),
      Obj([p |-> Obj([q |-> Str(<<"{", "a", "}", "-", "{", "b", "}">>)])]),
      Arr(<<Str(<<"{", "a", "}">>), Str(<<"x">>), Num(3)>>),
      Arr(<<>>) }

ResolveInit ==
    /\ AggIdle
    /\ GenIdle
    /\ PageIdle
    /\ StoreIdle
    /\ CallIdle
    /\ dataStore \in StorePool
    /\ resValue = Undef
    /\ resOut = Undef
    /\ view = <<>>
    /\ loadedComponents = <<>>
    /\ renderKey = ""
    /\ rendered = Null
    /\ renderedComponent = Null

\* resolveStoreVariables(value, dataStore) is called
Resolve(value) ==
    /\ resValue' = value
    /\ resOut' = resolveStoreVariables(value, dataStore)
    /\ UNCHANGED <<dataStore, aggVars, genVars, renVars, pageVars, storeVars, callVars>>

ResolveNext == \E value \in ResolvePool : Resolve(value)

SpecResolve == ResolveInit /\ [][ResolveNext]_vars

(***************************************************************************)
(* Claims on the resolver, checked under SpecResolve                       *)
(***************************************************************************)
\* cs is one placeholder and nothing else: a brace pair around a brace-free path
IsExactPlaceholder(cs) ==
    /\ Len(cs) >= 2
    /\ cs[1] = "{"
    /\ cs[Len(cs)] = "}"
    /\ \A i \in 2..(Len(cs) - 1) : cs[i] \notin {"{", "}"}

\* C10: a string is replaced only when it is exactly one placeholder, and then
\* by the store value at its path, with that value's own type; every other
\* string comes back unchanged.
C10_ExactPlaceholderOnly ==
    IsString(resValue) =>
        IF IsExactPlaceholder(resValue.v)
        THEN resOut = getNestedValue(dataStore, Trim(Slice(resValue.v, 1, -1)))
        ELSE resOut = resValue

(***************************************************************************)
(* Node renderer (services/decl/utils.ts, components/decl/index.ts,        *)
(* components/react/DeclGenRenderer.ts)                                    *)
(***************************************************************************)
\* a thrown exception, as the result of the call that threw
Thrown == [t |-> "throw", v |-> 0]
IsThrown(x) == x.t = "throw"

\* a loaded render target, a callback an adapter made, a React element
Comp(name) == [t |-> "comp", v |-> name]
Fn(kind, target, params, returns) ==
    [t |-> "fn", v |-> [kind |-> kind, target |-> target, params |-> params,
                        returns |-> returns]]
El(component, key, props) ==
    [t |-> "el", v |-> [type |-> component, key |-> key, props |-> props]]

\* whether x is truthy
Truthy(x) ==
    CASE x.t \in {"undef", "null"} -> FALSE
      [] x.t = "bool" -> x.v
      [] x.t = "num" -> x.v # 0
      [] x.t = "str" -> x.v # <<>>
      [] OTHER -> TRUE

\* o with o[k] = val, and o with k deleted
SetProp(o, k, val) == Obj((k :> val) @@ o.v)
DelProp(o, k) == Obj([x \in (DOMAIN o.v) \ {k} |-> o.v[x]])

\* {...x}: the own properties of a mapping, the indexes of an array or a string
Spread(x) ==
    IF IsPlain(x) THEN x
    ELSE IF x.t \in {"arr", "str"}
    THEN Obj([k \in {Digits[i] : i \in DOMAIN x.v} |->
                 LET e == x.v[CHOOSE i \in DOMAIN x.v : Digits[i] = k]
                 IN  IF x.t = "str" THEN Str(<<e>>) ELSE e])
    ELSE EmptyObj

\* Object.assign(target, source)
ObjectAssign(target, source) == Obj(source.v @@ target.v)

UpperCase == <<"A", "B", "C", "D", "E", "F", "G", "H", "I", "J", "K", "L", "M",
      "N", "O", "P", "Q", "R", "S", "T", "U", "V", "W", "X", "Y", "Z">>
LowerCase == <<"a", "b", "c", "d", "e", "f", "g", "h", "i", "j", "k", "l", "m",
      "n", "o", "p", "q", "r", "s", "t", "u", "v", "w", "x", "y", "z">>

\* s.toLowerCase()
ToLowerCase(s) ==
    [i \in DOMAIN s |->
        IF \E j \in DOMAIN UpperCase : UpperCase[j] = s[i]
        THEN LowerCase[CHOOSE j \in DOMAIN UpperCase : UpperCase[j] = s[i]]
        ELSE s[i]]

\* React.createElement(component, {key, ...props}, ...childArgs)
createElement(component, key, props, childArgs) ==
    El(component, key,
       IF childArgs = <<>> THEN props
       ELSE SetProp(props, "children",
                    IF Len(childArgs) = 1 THEN childArgs[1] ELSE Arr(childArgs)))

\* componentImportMap: the registered types, and those with a resolveProps
RegisteredTypes ==
    {"ExistWhen", "Button", "Card", "Breadcrumb", "Input", "Label", "TextBox", "Field",
     "Form"}
HasResolveProps(name) == name \in {"ExistWhen", "Button", "Card", "TextBox", "Field", "Form"}

\* the names of the loaded-actions map: the actions of the registry, custom
\* being one that registerAction added
LoadedActions == {"submit", "navigate", "getValue", "plusOne", "custom"}

\* the key the renderer files a view node under
NodeMapKey(node) ==
    IF IsString(Get(node, "key")) THEN Join(Get(node, "key").v)
    ELSE IF Truthy(Get(node, "key")) THEN JsString(Get(node, "key"))
    ELSE "node-" \o JsString(Get(node, "type"))

\* nodesMap: a later node of the view replaces an earlier one with its key
NodesMap(nodes) ==
    [k \in {NodeMapKey(nodes[i]) : i \in DOMAIN nodes} |->
        nodes[Max({i \in DOMAIN nodes : NodeMapKey(nodes[i]) = k})]]

\* renderContext
RenderContext(nodes, components, store) ==
    [declNodes |-> NodesMap(nodes), loadedComponents |-> components,
     loadedActions |-> LoadedActions, dataStore |-> store]

\* createDataBind(path, context).get()
BindingGet(path, context) == getNestedValue(context.dataStore, path)

\* the invoker without the data of submit: the resolved params as they are
ActionInvoker_keepParams(config, actionParams, context) ==
    Fn("action", Get(config, "name").v, actionParams, Get(config, "returns"))

\* the invoker createActionBind makes for an action config with a loaded action
ActionInvoker(config, actionParams, context) ==
    IF Get(config, "name").v = <<"s", "u", "b", "m", "i", "t">> /\ IsNullish(actionParams)
    THEN Thrown
    ELSE Fn("action", Get(config, "name").v,
            IF Get(config, "name").v = <<"s", "u", "b", "m", "i", "t">>
               /\ IsNullish(Get(actionParams, "data"))
            THEN SetProp(Spread(actionParams), "data", context.dataStore)
            ELSE actionParams,
            Get(config, "returns"))

createActionBind(actionConfig, context) ==
    IF IsNullish(actionConfig) THEN Undef
    ELSE IF IsPlain(actionConfig)
    THEN IF ~IsString(Get(actionConfig, "name")) THEN Undef
         ELSE IF Join(Get(actionConfig, "name").v) \notin context.loadedActions THEN Undef
         ELSE ActionInvoker(actionConfig,
                            resolveStoreVariables(
                                IF IsNullish(Get(actionConfig, "params")) THEN EmptyObj
                                ELSE Get(actionConfig, "params"),
                                context.dataStore),
                            context)
    ELSE IF IsString(actionConfig)
    THEN IF Join(actionConfig.v) \notin context.loadedActions THEN Undef
         ELSE Fn("legacy", actionConfig.v, Undef, Undef)
    ELSE Undef

RECURSIVE renderDeclNode(_, _)

\* renderDeclNodes(keys, context): the array of outputs, or Thrown
renderDeclNodes(keys, context) ==
    LET outs == [i \in DOMAIN keys |-> renderDeclNode(Join(keys[i].v), context)]
        kept(out) == ~IsNullish(out)
    IN  IF \E i \in DOMAIN outs : IsThrown(outs[i]) THEN Thrown
        ELSE Arr(SelectSeq(outs, kept))

\* processed[name] = nodes, unless rendering them threw
WithRendered(processed, name, nodes) ==
    IF IsThrown(nodes) THEN Thrown ELSE SetProp(processed, name, nodes)

\* an adapter's conversion of the key array processed[name] into rendered nodes
ConvertKeys(processed, name, context) ==
    IF IsThrown(processed) THEN Thrown
    ELSE IF IsArray(Get(processed, name))
    THEN WithRendered(processed, name,
                      renderDeclNodes(SelectSeq(Get(processed, name).v, IsString), context))
    ELSE processed

\* Button's resolveProps, once createActionBind gave onClick
ButtonProps(processed, onClick) ==
    IF IsThrown(onClick) THEN Thrown
    ELSE IF Truthy(onClick) THEN SetProp(processed, "onClick", onClick)
    ELSE IF ~IsNullish(Get(processed, "onClick")) THEN DelProp(processed, "onClick")
    ELSE processed

\* TextBox's resolveProps for the dataBind path, once the binding read bound
TextBoxProps(processed, path, bound, context) ==
    LET onValue == IsPlain(bound) /\ HasKey(bound, "value")
        valuePath == IF onValue THEN path \o <<".", "v", "a", "l", "u", "e">> ELSE path
        withValue == SetProp(processed, "value", BindingGet(valuePath, context))
        withLabel == IF onValue /\ HasKey(bound, "name")
                     THEN SetProp(withValue, "label", Get(bound, "name"))
                     ELSE withValue
        withHint == IF onValue /\ HasKey(bound, "name")
                       /\ ~IsNullish(Get(bound, "placeholder"))
                    THEN SetProp(withLabel, "placeholder", Get(bound, "placeholder"))
                    ELSE withLabel
    IN  DelProp(SetProp(withHint, "onChange", Fn("setFromEvent", valuePath, Undef, Undef)),
                "dataBind")

\* Field's resolveProps for the dataBind path, once the binding read property
FieldProps(processed, path, property, context) ==
    LET withProperty ==
            SetProp(processed, "property",
                    IF ~IsNullish(property) /\ IsObject(property) THEN Spread(property)
                    ELSE Obj([type |-> Str(<<"t", "e", "x", "t">>), name |-> Str(<<>>),
                              value |-> Undef]))
    IN  DelProp(SetProp(withProperty, "onChange",
                        Fn("set", path \o <<".", "v", "a", "l", "u", "e">>, Undef, Undef)),
                "dataBind")

\* componentImportMap[name].resolveProps(processed, context)
resolveProps(name, processed, context) ==
    CASE name \in {"ExistWhen", "Form"} -> ConvertKeys(processed, "children", context)
      [] name = "Card" ->
            ConvertKeys(
                ConvertKeys(
                    ConvertKeys(ConvertKeys(processed, "action", context), "content",
                                context),
                    "footer", context),
                "children", context)
      [] name = "Button" ->
            ButtonProps(processed, createActionBind(Get(processed, "onClick"), context))
      [] name = "TextBox" ->
            IF Truthy(Get(processed, "dataBind")) /\ IsString(Get(processed, "dataBind"))
            THEN TextBoxProps(processed, Get(processed, "dataBind").v,
                              BindingGet(Get(processed, "dataBind").v, context), context)
            ELSE processed
      [] name = "Field" ->
            IF Truthy(Get(processed, "dataBind")) /\ IsString(Get(processed, "dataBind"))
            THEN FieldProps(processed, Get(processed, "dataBind").v,
                            BindingGet(Get(processed, "dataBind").v, context), context)
            ELSE processed
      [] OTHER -> processed

\* children: the top-level list, else props.children when it is an array
NodeChildren(topLevelChildren, props) ==
    IF Truthy(topLevelChildren) THEN topLevelChildren
    ELSE IF Truthy(Get(props, "children")) /\ IsArray(Get(props, "children"))
         THEN Get(props, "children")
         ELSE Arr(<<>>)

\* childKeys
ChildKeys(children) == IF IsArray(children) THEN SelectSeq(children.v, IsString) ELSE <<>>

\* processedProps before the adapter: the resolved props, children set to the
\* top-level list when that is an array, key deleted
ProcessedProps(props, topLevelChildren, store) ==
    DelProp(IF Truthy(topLevelChildren) /\ IsArray(topLevelChildren)
            THEN SetProp(resolveStoreVariables(Spread(props), store), "children",
                         topLevelChildren)
            ELSE resolveStoreVariables(Spread(props), store),
            "key")

\* Object.assign(processedProps, resolved), unless the adapter threw
AssignResolved(processedProps, resolved) ==
    IF IsThrown(resolved) THEN Thrown ELSE ObjectAssign(processedProps, resolved)

\* processedProps after Object.assign of the adapter's result, if the type has one
AdaptedProps(name, processedProps, context) ==
    IF name \in RegisteredTypes /\ HasResolveProps(name)
    THEN AssignResolved(processedProps, resolveProps(name, processedProps, context))
    ELSE processedProps

\* Component: the loaded render target, else the lower-case type as a DOM tag
ComponentFor(type, components) ==
    IF Join(type.v) \in DOMAIN components THEN components[Join(type.v)]
    ELSE Str(ToLowerCase(type.v))

\* the return of renderDeclNode, once props and child nodes are ready
RenderResult(nodeKey, component, processedProps, childNodes) ==
    IF IsThrown(childNodes) \/ IsThrown(processedProps) THEN Thrown
    ELSE IF Get(processedProps, "children").t # "undef"
    THEN createElement(component, nodeKey, processedProps, <<>>)
    ELSE createElement(component, nodeKey, processedProps, childNodes.v)

\* the placeholder for a type whose render target is null
ErrorClassName ==
    Str(<<"p", "-", "2", " ", "b", "g", "-", "r", "e", "d", "-", "5", "0", " ", "b", "o",
        "r", "d", "e", "r", " ", "b", "o", "r", "d", "e", "r", "-", "r", "e", "d", "-",
        "2", "0", "0", " ", "r", "o", "u", "n", "d", "e", "d", " ", "t", "e", "x", "t",
        "-", "r", "e", "d", "-", "6", "0", "0", " ", "t", "e", "x", "t", "-", "s", "m">>)
ErrorPrefix ==
    <<"E", "r", "r", "o", "r", ":", " ", "C", "o", "m", "p", "o", "n", "e", "n", "t",
      " ", "\"">>
ErrorSuffix ==
    <<"\"", " ", "n", "o", "t", " ", "f", "o", "u", "n", "d">>

\* renderDeclNode for a node found in the map, with its props defaulted
RenderFound(nodeKey, type, props, topLevelChildren, context) ==
    IF ~IsString(type) THEN Thrown
    ELSE IF ComponentFor(type, context.loadedComponents).t = "null"
    THEN createElement(Str(<<"d", "i", "v">>), nodeKey,
                       Obj([className |-> ErrorClassName]),
                       <<Str(ErrorPrefix \o type.v \o ErrorSuffix)>>)
    ELSE RenderResult(nodeKey, ComponentFor(type, context.loadedComponents),
                      AdaptedProps(Join(type.v),
                                   ProcessedProps(props, topLevelChildren,
                                                  context.dataStore),
                                   context),
                      renderDeclNodes(ChildKeys(NodeChildren(topLevelChildren, props)),
                                      context))

\* the elements of the sequence s
Elements(s) == {s[i] : i \in DOMAIN s}

\* the strings of the array processed[name], as keys
ConvertedKeys(processed, name) ==
    IF IsArray(Get(processed, name))
    THEN {Join(k.v) : k \in {e \in Elements(Get(processed, name).v) : IsString(e)}}
    ELSE {}

\* the keys the adapter of the type name hands to renderDeclNodes
AdapterKeys(name, processed) ==
    IF ~(name \in RegisteredTypes /\ HasResolveProps(name)) THEN {}
    ELSE IF name \in {"ExistWhen", "Form"} THEN ConvertedKeys(processed, "children")
    ELSE IF name = "Card"
    THEN UNION {ConvertedKeys(processed, slot) :
                   slot \in {"action", "content", "footer", "children"}}
    ELSE {}

\* the keys renderDeclNode(nodeKey, context) calls renderDeclNode for: the
\* child keys of the node, and the keys its adapter converts
CalledKeys(nodeKey, context) ==
    IF nodeKey \notin DOMAIN context.declNodes THEN {}
    ELSE LET node == context.declNodes[nodeKey]
             type == Get(node, "type")
             props == IF Get(node, "props").t = "undef" THEN EmptyObj
                      ELSE Get(node, "props")
         IN  IF ~IsString(type) THEN {}
             ELSE IF ComponentFor(type, context.loadedComponents).t = "null" THEN {}
             ELSE {Join(k.v) : k \in Elements(ChildKeys(NodeChildren(Get(node, "children"),
                                                                     props)))}
                  \cup AdapterKeys(Join(type.v),
                                   ProcessedProps(props, Get(node, "children"),
                                                  context.dataStore))

RECURSIVE HasCallChain(_, _, _)
\* whether n nested calls of renderDeclNode follow the call for nodeKey
HasCallChain(nodeKey, context, n) ==
    IF n = 0 THEN TRUE
    ELSE \E k \in CalledKeys(nodeKey, context) : HasCallChain(k, context, n - 1)

\* whether the call for nodeKey returns or throws on its own account: the
\* calls nested in it are fewer than the nodes of the map, so none repeats
Returns(nodeKey, context) ==
    ~HasCallChain(nodeKey, context, Cardinality(DOMAIN context.declNodes) + 1)

\* A call that nests calls without end exhausts the stack: the engine throws
\* a RangeError, which renderDeclNode does not catch.
renderDeclNode(nodeKey, context) ==
    IF nodeKey \notin DOMAIN context.declNodes THEN Null
    ELSE IF ~Returns(nodeKey, context) THEN Thrown
    ELSE RenderFound(nodeKey,
                     Get(context.declNodes[nodeKey], "type"),
                     IF Get(context.declNodes[nodeKey], "props").t = "undef" THEN EmptyObj
                     ELSE Get(context.declNodes[nodeKey], "props"),
                     Get(context.declNodes[nodeKey], "children"),
                     context)

\* [...x] for the children or content of a view node: the elements of an
\* array, the characters of a string, as an array; a TypeError for what is not
\* iterable
SpreadItems(x) ==
    IF IsArray(x) THEN x
    ELSE IF IsString(x) THEN Arr([i \in DOMAIN x.v |-> Str(<<x.v[i]>>)])
    ELSE Thrown

\* [...children, ...content] of a view node, or Thrown
ReferencedKeys(node) ==
    LET children ==
            IF ~IsNullish(Get(node, "children")) THEN Get(node, "children")
            ELSE IF Truthy(Get(Get(node, "props"), "children"))
                    /\ IsArray(Get(Get(node, "props"), "children"))
                 THEN Get(Get(node, "props"), "children")
                 ELSE Arr(<<>>)
        content ==
            IF Truthy(Get(Get(node, "props"), "content"))
               /\ IsArray(Get(Get(node, "props"), "content"))
            THEN Get(Get(node, "props"), "content")
            ELSE Arr(<<>>)
    IN  IF IsThrown(SpreadItems(children)) THEN Thrown
        ELSE Arr(SpreadItems(children).v \o SpreadItems(content).v)

\* childKeys: the strings some node of the view lists as children or content
ChildKeySet(nodes) ==
    UNION {{Join(c.v) : c \in {e \in Elements(ReferencedKeys(nodes[i]).v) : IsString(e)}} :
              i \in DOMAIN nodes}

\* rootKeys: the keys of the view, in view order, that childKeys lacks
RootKeys(nodes) ==
    LET unreferenced(key) == key \notin ChildKeySet(nodes)
    IN  SelectSeq([i \in DOMAIN nodes |-> NodeMapKey(nodes[i])], unreferenced)

\* keysToRender: the root keys, or every key when there is no root
KeysToRender(nodes) ==
    IF RootKeys(nodes) # <<>> THEN RootKeys(nodes)
    ELSE [i \in DOMAIN nodes |-> NodeMapKey(nodes[i])]

\* the element the renderer's catch makes; the text of its second child is
\* the message of the error, which the model does not tell apart
RenderingError ==
    createElement(Str(<<"d", "i", "v">>), "error",
        Obj([className |-> Str(<<"p", "-", "4", " ", "b", "g", "-", "r", "e", "d", "-", "5", "0", " ", "b", "o", "r", "d", "e", "r", " ", "b", "o", "r", "d", "e", "r", "-", "r", "e", "d", "-", "2", "0", "0", " ", "r", "o", "u", "n", "d", "e", "d", " ", "t", "e", "x", "t", "-", "r", "e", "d", "-", "6", "0", "0">>)]),
        << createElement(Str(<<"d", "i", "v">>), "error-title",
                         Obj([className |-> Str(<<"f", "o", "n", "t", "-", "s", "e", "m", "i", "b", "o", "l", "d", " ", "m", "b", "-", "2">>)]),
                         <<Str(<<"R", "e", "n", "d", "e", "r", "i", "n", "g", " ", "E", "r", "r", "o", "r">>)>>),
           createElement(Str(<<"d", "i", "v">>), "error-message",
                         Obj([className |-> Str(<<"t", "e", "x", "t", "-", "s", "m">>)]), <<Thrown>>) >>)

\* renderedComponent once the roots gave outs: the one output, or a Fragment
\* around them, or the catch's element when rendering a root threw
ViewOutput(outs) ==
    IF \E i \in DOMAIN outs : IsThrown(outs[i]) THEN RenderingError
    ELSE IF Len(outs) = 1 THEN outs[1]
    ELSE createElement(Comp("Fragment"), "", EmptyObj, outs)

\* renderedComponent for a view, the loaded targets and the store
RenderedComponent(nodes, components, store) ==
    IF nodes = <<>> THEN Null
    ELSE IF \E i \in DOMAIN nodes : IsThrown(ReferencedKeys(nodes[i])) THEN RenderingError
    ELSE ViewOutput([i \in DOMAIN KeysToRender(nodes) |->
                        renderDeclNode(KeysToRender(nodes)[i],
                                       RenderContext(nodes, components, store))])

(***************************************************************************)
(* SpecRender: view deltas of DeltaPool build the view, the render targets *)
(* load, and renderDeclNode is called on the keys of RenderKeys.           *)
(***************************************************************************)
\* the most view deltas a view is built from
MaxDeltas == 2

\* a leaf whose text is a placeholder
NodeA ==
    Obj([key |-> Str(<<"a">>), type |-> Str(<<"L", "a", "b", "e", "l">>), props |->
    Obj([text |-> Str(<<"{", "c", "o", "u", "n", "t", "}">>)])])

\* a leaf without props
NodeB == Obj([key |-> Str(<<"b">>), type |-> Str(<<"L", "a", "b", "e", "l">>)])

\* a conditional wrapper around b
NodeC ==
    Obj([key |-> Str(<<"c">>), type |-> Str(<<"E", "x", "i", "s", "t", "W", "h", "e",
    "n">>), props |-> Obj([condition |-> Str(<<"{", "f", "l", "a", "g", "}">>)]),
    children |-> Arr(<<Str(<<"b">>)>>)])

\* r as a Card: a type whose adapter converts children
RootCard ==
    Obj([key |-> Str(<<"r">>), type |-> Str(<<"C", "a", "r", "d">>), children |->
    Arr(<<Str(<<"a">>), Str(<<"z", "z">>), Str(<<"b">>)>>)])

\* r as a div: a type that is not registered
RootDiv ==
    Obj([key |-> Str(<<"r">>), type |-> Str(<<"d", "i", "v">>), children |->
    Arr(<<Str(<<"a">>), Str(<<"z", "z">>)>>)])

\* r as a Label: a registered type without an adapter
RootLabel ==
    Obj([key |-> Str(<<"r">>), type |-> Str(<<"L", "a", "b", "e", "l">>), children |->
    Arr(<<Str(<<"a">>), Str(<<"z", "z">>)>>)])

\* r as a Form whose child keys are in props.children
RootForm ==
    Obj([key |-> Str(<<"r">>), type |-> Str(<<"F", "o", "r", "m">>), props |->
    Obj([children |-> Arr(<<Str(<<"a">>), Str(<<"b">>)>>)])])

\* r as an unregistered type whose child keys are in props.children
RootWidget ==
    Obj([key |-> Str(<<"r">>), type |-> Str(<<"W", "i", "d", "g", "e", "t">>), props
    |-> Obj([children |-> Arr(<<Str(<<"a">>)>>)])])

\* r without children
RootEmpty == Obj([key |-> Str(<<"r">>), type |-> Str(<<"d", "i", "v">>)])

\* r as a Button: an adapter that leaves children alone
RootButton ==
    Obj([key |-> Str(<<"r">>), type |-> Str(<<"B", "u", "t", "t", "o", "n">>), props
    |-> Obj([onClick |-> Obj([name |-> Str(<<"s", "u", "b", "m", "i", "t">>)])]),
    children |-> Arr(<<Str(<<"a">>)>>)])

\* r as a Button whose onClick names an action that is not loaded
RootUnbound ==
    Obj([key |-> Str(<<"r">>), type |-> Str(<<"B", "u", "t", "t", "o", "n">>), props
    |-> Obj([onClick |-> Obj([name |-> Str(<<"m", "i", "s", "s", "i", "n", "g">>)])]),
    children |-> Arr(<<Str(<<"a">>)>>)])

\* c as a Button whose adapter throws: the params of its submit resolve to the
\* store's text {missing}, and that, in createActionBind, to undefined
NodeThrows ==
    Obj([key |-> Str(<<"c">>), type |-> Str(<<"B", "u", "t", "t", "o", "n">>), props
    |-> Obj([onClick |-> Obj([name |-> Str(<<"s", "u", "b", "m", "i", "t">>), params |-> Str(<<"{", "r", "e", "f", "}">>)])])])

\* c as a Button whose action param reads the store's text {missing}
NodeTwice ==
    Obj([key |-> Str(<<"c">>), type |-> Str(<<"B", "u", "t", "t", "o", "n">>), props
    |-> Obj([onClick |-> Obj([name |-> Str(<<"n", "a", "v", "i", "g", "a", "t", "e">>),
                              params |-> Obj([url |-> Str(<<"{", "r", "e", "f", "}">>)])])])])

\* r as a Card with a in its footer slot
RootFooter ==
    Obj([key |-> Str(<<"r">>), type |-> Str(<<"C", "a", "r", "d">>), props |->
    Obj([footer |-> Arr(<<Str(<<"a">>)>>)])])

\* r as a Card whose footer slot reads its keys from the store
RootLoop ==
    Obj([key |-> Str(<<"r">>), type |-> Str(<<"C", "a", "r", "d">>), props |->
    Obj([footer |-> Str(<<"{", "l", "o", "o", "p", "}">>)])])

\* r as a TextBox bound to a store path
RootTextBox ==
    Obj([key |-> Str(<<"r">>), type |-> Str(<<"T", "e", "x", "t", "B", "o", "x">>),
    props |-> Obj([dataBind |-> Str(<<"u", "s", "e", "r">>)])])

\* r as a Field bound to a store path
RootField ==
    Obj([key |-> Str(<<"r">>), type |-> Str(<<"F", "i", "e", "l", "d">>), props |->
    Obj([dataBind |-> Str(<<"c", "o", "u", "n", "t">>)]), children |->
    Arr(<<Str(<<"z", "z">>)>>)])

\* r as a Card around c, with a in its content slot
RootNested ==
    Obj([key |-> Str(<<"r">>), type |-> Str(<<"C", "a", "r", "d">>), props |->
    Obj([content |-> Arr(<<Str(<<"a">>)>>)]), children |-> Arr(<<Str(<<"c">>)>>)])

DeltaPool ==
    { <<NodeA>>, <<NodeB>>, <<NodeC>>, <<NodeA, NodeB>>, <<NodeC, NodeB>>,
      <<RootCard>>, <<RootDiv>>, <<RootLabel>>, <<RootForm>>, <<RootWidget>>,
      <<RootEmpty>>, <<RootButton>>, <<RootUnbound>>, <<NodeThrows>>, <<NodeTwice>>, <<RootFooter>>, <<RootLoop>>, <<RootTextBox>>, <<RootField>>, <<RootNested>>,
      <<NodeA, RootCard>>, <<NodeA, RootDiv>> }

\* zz is a key no node of the pool has
RenderKeys == {"r", "a", "b", "c", "zz"}

RenderStore ==
    Obj([count |-> Num(7), flag |-> Bool(TRUE), loop |-> Arr(<<Str(<<"r">>)>>), ref |-> Str(<<"{", "m", "i", "s", "s", "i", "n", "g", "}">>),
         user |-> Obj([name |-> Str(<<"N", "a", "m", "e">>), value |-> Str(<<"A", "n", "n">>)])])

\* loadAllComponents(): a map from each registered type that loaded to its target
LoadedMap(names) == [n \in names |-> Comp(n)]

RenderInit ==
    /\ AggIdle
    /\ GenIdle
    /\ PageIdle
    /\ StoreIdle
    /\ CallIdle
    /\ dataStore = RenderStore
    /\ resValue = Undef
    /\ resOut = Undef
    /\ view = <<>>
    /\ loadedComponents = <<>>
    /\ renderKey = ""
    /\ rendered = Null
    /\ renderedComponent = Null

\* a spec whose view took one more delta reaches the renderer: it renders anew
ViewDelta(nodes) ==
    /\ Len(view) < MaxDeltas
    /\ view' = applyViewChunk(view, ViewUpdate(nodes))
    /\ renderKey' = ""
    /\ rendered' = Null
    /\ renderedComponent' = Null
    /\ UNCHANGED <<loadedComponents, dataStore, resValue, resOut, aggVars, genVars,
                   pageVars, storeVars, callVars>>

\* loadAllComponents() resolves with the targets that loaded: the renderer
\* renders anew
ComponentsLoaded(names) ==
    /\ loadedComponents = <<>>
    /\ loadedComponents' = LoadedMap(names)
    /\ renderKey' = ""
    /\ rendered' = Null
    /\ renderedComponent' = Null
    /\ UNCHANGED <<view, dataStore, resValue, resOut, aggVars, genVars, pageVars, storeVars, callVars>>

\* renderDeclNode(nodeKey, renderContext) is called
Render(nodeKey) ==
    /\ renderKey' = nodeKey
    /\ rendered' = renderDeclNode(nodeKey,
                                  RenderContext(view, loadedComponents, dataStore))
    /\ UNCHANGED <<view, loadedComponents, renderedComponent, dataStore, resValue,
                   resOut, aggVars, genVars, pageVars, storeVars, callVars>>

\* the renderer renders the view it has
RenderView ==
    /\ view # <<>>
    /\ renderedComponent' = RenderedComponent(view, loadedComponents, dataStore)
    /\ UNCHANGED <<view, loadedComponents, renderKey, rendered, dataStore, resValue,
                   resOut, aggVars, genVars, pageVars, storeVars, callVars>>

RenderNext ==
    \/ \E nodes \in DeltaPool : ViewDelta(nodes)
    \/ \E names \in {RegisteredTypes, RegisteredTypes \ {"Card"}} : ComponentsLoaded(names)
    \/ \E nodeKey \in RenderKeys : Render(nodeKey)
    \/ RenderView

SpecRender == RenderInit /\ [][RenderNext]_vars

(***************************************************************************)
(* Claims on the renderer, checked under SpecRender                        *)
(***************************************************************************)
\* the children of a rendered element, as a sequence
OutputChildren(el) ==
    IF Get(el.v.props, "children").t = "undef" THEN <<>>
    ELSE IF IsArray(Get(el.v.props, "children")) THEN Get(el.v.props, "children").v
    ELSE <<Get(el.v.props, "children")>>

\* the outputs of the child keys of node that the map holds, in list order
PresentChildOutputs(node, context) ==
    LET childKeys == ChildKeys(NodeChildren(Get(node, "children"),
                                            IF Get(node, "props").t = "undef"
                                            THEN EmptyObj ELSE Get(node, "props")))
        present(k) == Join(k.v) \in DOMAIN context.declNodes
        presentKeys == SelectSeq(childKeys, present)
    IN  [i \in DOMAIN presentKeys |-> renderDeclNode(Join(presentKeys[i].v), context)]

\* whether the children list of node has a key the map lacks
HasAbsentChild(node, context) ==
    \E k \in Elements(ChildKeys(NodeChildren(Get(node, "children"),
                                             IF Get(node, "props").t = "undef"
                                             THEN EmptyObj ELSE Get(node, "props")))) :
        Join(k.v) \notin DOMAIN context.declNodes

RenderedAsClaimed(nodeKey, out, context) ==
    IF nodeKey \notin DOMAIN context.declNodes THEN out.t = "null"
    ELSE HasAbsentChild(context.declNodes[nodeKey], context) =>
            /\ out.t = "el"
            /\ OutputChildren(out)
                   = PresentChildOutputs(context.declNodes[nodeKey], context)

\* C8: renderDeclNode returns null for a key the node map lacks, and for a
\* node of any type an element whose children are the outputs of its child
\* keys that the map holds, in list order.
C8_ChildrenArePresentOutputs ==
    renderKey # "" =>
        RenderedAsClaimed(renderKey, rendered,
                          RenderContext(view, loadedComponents, dataStore))

(***************************************************************************)
(* JSON.stringify(value, null, 2)                                          *)
(***************************************************************************)
RECURSIVE NumString(_)
\* the decimal digits of the natural number n
NumString(n) ==
    IF n < 10 THEN <<Digits[n + 1]>> ELSE NumString(n \div 10) \o <<Digits[(n % 10) + 1]>>

\* the characters of a string literal: quote and backslash are escaped
Quote(s) ==
    LET esc(c) == IF c \in {"\"", "\\"} THEN <<"\\", c>> ELSE <<c>>
        F[i \in 0..Len(s)] == IF i = 0 THEN <<>> ELSE F[i - 1] \o esc(s[i])
    IN  <<"\"">> \o F[Len(s)] \o <<"\"">>

\* n spaces
Spaces(n) == [i \in 1..n |-> " "]

\* The model's objects do not keep the order their properties were added in:
\* the properties of the model's specs, in the order they are written.
PropertyOrder ==
    <<<<"v", "i", "e", "w">>,
      <<"d", "a", "t", "a">>,
      <<"k", "e", "y">>,
      <<"t", "y", "p", "e">>,
      <<"p", "r", "o", "p", "s">>,
      <<"c", "h", "i", "l", "d", "r", "e", "n">>,
      <<"t", "e", "x", "t">>,
      <<"c", "o", "u", "n", "t">>,
      <<"n", "a", "m", "e">>,
      <<"v", "a", "l", "u", "e">>>>

\* the names of the properties of o that are written: those whose value is
\* neither undefined nor a function
WrittenKeys(o) ==
    LET written(name) == Join(name) \in DOMAIN o.v
                            /\ o.v[Join(name)].t \notin {"undef", "fn"}
    IN  SelectSeq(PropertyOrder, written)

\* the parts, each on a line of its own at the indentation inner, between the
\* brackets open and close
Bracketed(open, parts, close, indent, inner) ==
    LET F[i \in 0..Len(parts)] ==
            IF i = 0 THEN <<>>
            ELSE F[i - 1] \o (IF i = 1 THEN <<>> ELSE <<",">>) \o <<"\n">> \o Spaces(inner)
                          \o parts[i]
    IN  IF parts = <<>> THEN <<open, close>>
        ELSE <<open>> \o F[Len(parts)] \o <<"\n">> \o Spaces(indent) \o <<close>>

RECURSIVE Stringify(_, _)
\* the text of x at the indentation indent
Stringify(x, indent) ==
    CASE x.t = "null" -> <<"n", "u", "l", "l">>
      [] x.t = "bool" -> IF x.v THEN <<"t", "r", "u", "e">> ELSE <<"f", "a", "l", "s", "e">>
      [] x.t = "num" -> NumString(x.v)
      [] x.t = "str" -> Quote(x.v)
      [] x.t = "arr" ->
            Bracketed("[",
                      [i \in DOMAIN x.v |->
                          IF x.v[i].t \in {"undef", "fn"} THEN <<"n", "u", "l", "l">>
                          ELSE Stringify(x.v[i], indent + 2)],
                      "]", indent, indent + 2)
      [] x.t = "obj" ->
            Bracketed("{",
                      [i \in DOMAIN WrittenKeys(x) |->
                          Quote(WrittenKeys(x)[i]) \o <<":", " ">>
                              \o Stringify(x.v[Join(WrittenKeys(x)[i])], indent + 2)],
                      "}", indent, indent + 2)

\* JSON.stringify(spec, null, 2) for a spec {view, data}
JsonStringify(spec) == Stringify(Obj([view |-> Arr(spec.view), data |-> spec.data]), 0)

\* the declSpec the page derives from the editor's text: undefined while
\* loading, null on an error or a text that is no object, else {view, data}
ParsedDeclSpec(text, generating, err) ==
    IF generating /\ Trim(text) = <<>> THEN Undef
    ELSE IF Truthy(err) THEN Null
    ELSE LET parsed == tryParseJsonFromText(text).value
         IN  IF IsPlain(parsed)
             THEN Obj([view |-> IF IsArray(Get(parsed, "view")) THEN Get(parsed, "view")
                                ELSE Arr(<<>>),
                       data |-> IF IsPlain(Get(parsed, "data")) THEN Get(parsed, "data")
                                ELSE EmptyObj])
             ELSE IF Trim(text) # <<>> THEN Null
             ELSE Obj([view |-> Arr(<<>>), data |-> EmptyObj])

(***************************************************************************)
(* The DeclGen page (pages/DeclGenExample.ts)                              *)
(***************************************************************************)
\* whether the run that captured currentRun is no longer the active run
IsStaleRun_never(activeRun, currentRun) == FALSE
IsStaleRun(activeRun, currentRun) == activeRun # Num(currentRun)

\* err.message || 'Failed to generate DECL spec'
ErrorMessage(message) ==
    IF Truthy(message) THEN message
    ELSE Str(<<"F", "a", "i", "l", "e", "d", " ", "t", "o", " ", "g", "e", "n",
             "e", "r", "a", "t", "e", " ", "D", "E", "C", "L", " ", "s", "p", "e",
             "c">>)

\* the runs started before run r, and the runs started so far
RunsBefore(r) == 1..(r - 1)

\* the cleanup of the generation effect that captured currentRun (0: the effect
\* returned none)
CleanedUp(activeRun, currentRun) ==
    IF currentRun # 0 /\ activeRun = Num(currentRun) THEN Null ELSE activeRun

\* The generation effect is invoked: the cleanup of its previous invocation,
\* then its body.
InvokeEffect ==
    /\ effectDeps' = <<prompt, generationKey>>
    /\ activeRunRef' = CleanedUp(activeRunRef, effectRun)
    /\ IF ~Truthy(prompt)
       THEN /\ effectRun' = 0
            /\ lastEvent' = [kind |-> "effect", run |-> 0]
            /\ UNCHANGED <<effectRunRef, error, jsonText, isGenerating, microtasks,
                           superseded>>
       ELSE /\ effectRunRef' = effectRunRef + 1
            /\ effectRun' = effectRunRef + 1
            /\ error' = Null
            /\ jsonText' = <<>>
            /\ isGenerating' = TRUE
            /\ microtasks' = Append(microtasks, effectRunRef + 1)
            /\ superseded' = superseded \cup RunsBefore(effectRunRef + 1)
            /\ lastEvent' = [kind |-> "effect", run |-> effectRunRef + 1]
    /\ UNCHANGED <<prompt, inputValue, generationKey, runs, aggVars, genVars, resVars,
                   renVars, storeVars, callVars>>

(***************************************************************************)
(* SpecPage: the user edits the prompt and the editor and asks for         *)
(* generations; each started run delivers specs of PageSpecs and settles.  *)
(***************************************************************************)
\* the most generations asked for, and the most invocations of the effect body
MaxGenerations == 2
MaxRuns == 3


\* what the user types into the prompt input and the editor
PromptTexts == {<<>>, DEFAULT_PROMPT, <<"f", "o", "r", "m">>}
EditorTexts == {<<>>, <<"{", "}">>}

\* the specs a run delivers, and the messages it fails with
PageSpecs ==
    { EmptySpec,
      [view |-> <<NodeB>>, data |-> EmptyObj],
      [view |-> <<NodeB>>, data |-> Obj([count |-> Num(12)])] }
FailureMessages == {Str(<<>>), Str(<<"4", "0", "1">>)}

PageInit ==
    /\ AggIdle
    /\ GenIdle
    /\ RenIdle
    /\ PageIdle
    /\ StoreIdle
    /\ CallIdle

\* the user types into the prompt input
InputChange(text) ==
    /\ microtasks = <<>>
    /\ inputValue # text
    /\ inputValue' = text
    /\ lastEvent' = [kind |-> "input", run |-> 0]
    /\ UNCHANGED <<prompt, generationKey, jsonText, isGenerating, error, effectRunRef,
                   activeRunRef, effectDeps, effectRun, microtasks, runs, superseded,
                   aggVars, genVars, resVars, renVars, storeVars, callVars>>

\* handleGenerate(): the button, or Enter in the prompt input
HandleGenerate ==
    /\ microtasks = <<>>
    /\ effectDeps = <<prompt, generationKey>>
    /\ generationKey < MaxGenerations
    /\ effectRunRef < MaxRuns
    /\ error' = Null
    /\ jsonText' = <<>>
    /\ isGenerating' = TRUE
    /\ activeRunRef' = Null
    /\ prompt' = Str(inputValue)
    /\ generationKey' = generationKey + 1
    /\ superseded' = superseded \cup (1..effectRunRef)
    /\ lastEvent' = [kind |-> "generate", run |-> 0]
    /\ UNCHANGED <<inputValue, effectRunRef, effectDeps, effectRun, microtasks, runs,
                   aggVars, genVars, resVars, renVars, storeVars, callVars>>

\* handleEditorChange(value)
HandleEditorChange(value) ==
    /\ microtasks = <<>>
    /\ IF ~isGenerating /\ value.t # "undef"
       THEN jsonText' = value.v /\ error' = Null
       ELSE UNCHANGED <<jsonText, error>>
    /\ lastEvent' = [kind |-> "edit", run |-> 0]
    /\ UNCHANGED <<prompt, inputValue, generationKey, isGenerating, effectRunRef,
                   activeRunRef, effectDeps, effectRun, microtasks, runs, superseded,
                   aggVars, genVars, resVars, renVars, storeVars, callVars>>

\* the generation effect runs because prompt or generationKey changed
EffectRun ==
    /\ effectDeps # <<prompt, generationKey>>
    /\ effectRunRef < MaxRuns
    /\ InvokeEffect

\* Strict Mode invokes the generation effect again, its dependencies unchanged
EffectReinvoke ==
    /\ effectDeps = <<prompt, generationKey>>
    /\ Truthy(prompt)
    /\ effectRunRef < MaxRuns
    /\ InvokeEffect

\* currentRun === effectRunRef.current, as the microtask of currentRun tests it
IsLatestRun_always(currentRun, latestRun) == TRUE
IsLatestRun(currentRun, latestRun) == currentRun = latestRun

\* the microtask an invocation of the effect queued: generate is called for
\* the latest invocation only
Microtask ==
    /\ microtasks # <<>>
    /\ microtasks' = Tail(microtasks)
    /\ IF ~IsLatestRun(Head(microtasks), effectRunRef)
       THEN UNCHANGED <<activeRunRef, runs>>
       ELSE /\ activeRunRef' = Num(Head(microtasks))
            /\ runs' = (Head(microtasks) :> "streaming") @@ runs
    /\ lastEvent' = [kind |-> "microtask", run |-> Head(microtasks)]
    /\ UNCHANGED <<prompt, inputValue, generationKey, jsonText, isGenerating, error,
                   effectRunRef, effectDeps, effectRun, superseded, aggVars, genVars,
                   resVars, renVars, storeVars, callVars>>

\* generate calls the onUpdate of run currentRun with spec
OnUpdate(currentRun, spec) ==
    /\ microtasks = <<>>
    /\ currentRun \in DOMAIN runs
    /\ runs[currentRun] = "streaming"
    /\ IF IsStaleRun(activeRunRef, currentRun) THEN UNCHANGED jsonText
       ELSE jsonText' = JsonStringify(spec)
    /\ lastEvent' = [kind |-> "onUpdate", run |-> currentRun]
    /\ UNCHANGED <<prompt, inputValue, generationKey, isGenerating, error, effectRunRef,
                   activeRunRef, effectDeps, effectRun, microtasks, runs, superseded,
                   aggVars, genVars, resVars, renVars, storeVars, callVars>>

\* the generate of run currentRun resolves with spec
GenerateResolved(currentRun, spec) ==
    /\ microtasks = <<>>
    /\ currentRun \in DOMAIN runs
    /\ runs[currentRun] = "streaming"
    /\ runs' = [runs EXCEPT ![currentRun] = "settled"]
    /\ IF IsStaleRun(activeRunRef, currentRun) THEN UNCHANGED <<jsonText, isGenerating>>
       ELSE jsonText' = JsonStringify(spec) /\ isGenerating' = FALSE
    /\ lastEvent' = [kind |-> "resolved", run |-> currentRun]
    /\ UNCHANGED <<prompt, inputValue, generationKey, error, effectRunRef, activeRunRef,
                   effectDeps, effectRun, microtasks, superseded, aggVars, genVars,
                   resVars, renVars, storeVars, callVars>>

\* the generate of run currentRun rejects with an error whose message is message
GenerateRejected(currentRun, message) ==
    /\ microtasks = <<>>
    /\ currentRun \in DOMAIN runs
    /\ runs[currentRun] = "streaming"
    /\ runs' = [runs EXCEPT ![currentRun] = "settled"]
    /\ IF IsStaleRun(activeRunRef, currentRun) THEN UNCHANGED <<error, isGenerating>>
       ELSE error' = ErrorMessage(message) /\ isGenerating' = FALSE
    /\ lastEvent' = [kind |-> "rejected", run |-> currentRun]
    /\ UNCHANGED <<prompt, inputValue, generationKey, jsonText, effectRunRef,
                   activeRunRef, effectDeps, effectRun, microtasks, superseded, aggVars,
                   genVars, resVars, renVars, storeVars, callVars>>

PageNext ==
    \/ \E text \in PromptTexts : InputChange(text)
    \/ HandleGenerate
    \/ \E value \in {Undef} \cup {Str(t) : t \in EditorTexts} : HandleEditorChange(value)
    \/ EffectRun
    \/ EffectReinvoke
    \/ Microtask
    \/ \E r \in 1..MaxRuns, spec \in PageSpecs : OnUpdate(r, spec)
    \/ \E r \in 1..MaxRuns, spec \in PageSpecs : GenerateResolved(r, spec)
    \/ \E r \in 1..MaxRuns, message \in FailureMessages : GenerateRejected(r, message)

SpecPage == PageInit /\ [][PageNext]_vars

\* the generate of run currentRun settles
RunSettles(currentRun) ==
    \/ \E spec \in PageSpecs : GenerateResolved(currentRun, spec)
    \/ \E message \in FailureMessages : GenerateRejected(currentRun, message)

\* SpecPage where React runs the effect whose dependencies changed, the
\* microtask queue is drained, and the network call of every run settles
SpecPageLive ==
    /\ PageInit
    /\ [][PageNext]_vars
    /\ WF_vars(EffectRun)
    /\ WF_vars(Microtask)
    /\ \A r \in 1..MaxRuns : WF_vars(RunSettles(r))

(***************************************************************************)
(* Claims on the page, checked under SpecPage                              *)
(***************************************************************************)
RunCallbacks == {"onUpdate", "resolved", "rejected"}

\* the step is a callback of a run that a later generation has superseded
StaleCallback(event, stale) == event.kind \in RunCallbacks /\ event.run \in stale

\* C4: once a new generation has been started, by handleGenerate or by another
\* invocation of the generation effect, a callback of an earlier run (onUpdate,
\* resolution, rejection) changes none of jsonText, error and isGenerating,
\* in whatever order the callbacks of the runs are delivered.
C4_StaleCallbackIsNoOp ==
    [][StaleCallback(lastEvent', superseded) => UNCHANGED <<jsonText, error, isGenerating>>]_vars

\* a callback of a superseded run is delivered while a later run is active
\* and has streamed a spec into the editor
C4_Witness ==
    /\ StaleCallback(lastEvent, superseded)
    /\ activeRunRef # Null
    /\ lastEvent.run < activeRunRef.v
    /\ jsonText # <<>>

\* the runs whose callbacks take effect: generate was called for them, has
\* not settled, and they are the active run
ActiveRuns(started, activeRun) ==
    {r \in DOMAIN started : started[r] = "streaming" /\ ~IsStaleRun(activeRun, r)}

\* the runs for which generate is called in the step
GenerateCalls(started, startedAfter) == DOMAIN startedAfter \ DOMAIN started

\* C26: of the invocations of the generation effect whose microtasks are
\* queued together, generate is called for the latest alone: a microtask calls
\* generate for its own run when it is the last one queued and for none
\* otherwise; and at every moment at most one run is the active run.
C26_OnlyLatestGenerates ==
    /\ [][(microtasks # <<>> /\ microtasks' = Tail(microtasks)) =>
            GenerateCalls(runs, runs')
                = IF Len(microtasks) = 1 THEN {Head(microtasks)} ELSE {}]_vars
    /\ [](Cardinality(ActiveRuns(runs, activeRunRef)) <= 1)

\* C26 witness: the effect was invoked twice before its microtasks ran, both
\* microtasks have run, and generate was called for run 2 alone, the active run
C26_Witness ==
    /\ effectRunRef = 2
    /\ generationKey = 1
    /\ microtasks = <<>>
    /\ lastEvent = [kind |-> "microtask", run |-> 2]
    /\ DOMAIN runs = {2}
    /\ ActiveRuns(runs, activeRunRef) = {2}

\* C27: after every handleGenerate the page leaves the generating state.
C27_LeavesGenerating == (lastEvent.kind = "generate") ~> ~isGenerating

\* C27 where it holds: after a handleGenerate with a prompt that is not empty
\* the page leaves the generating state, unless a later handleGenerate finds
\* the prompt input empty.
C27_LeavesGeneratingWithPrompt ==
    (lastEvent.kind = "generate" /\ Truthy(prompt)) ~> (~isGenerating \/ ~Truthy(prompt))

(***************************************************************************)
(* Objects in memory.  An object or an array lives at an address of heap   *)
(* as [t, v] with v a function from property names to values; a value in   *)
(* memory is a primitive or a reference to an address, so that two values  *)
(* can share an object and a write through one is seen through the other.  *)
(***************************************************************************)
Ref(a) == [t |-> "ref", v |-> a]

RECURSIVE KeySeq(_)
\* the elements of the set S of property names, one after the other
KeySeq(S) ==
    IF S = {} THEN <<>> ELSE LET k == CHOOSE k \in S : TRUE IN <<k>> \o KeySeq(S \ {k})

\* the property names of the value x: its keys, or its indexes
NamesOf(x) ==
    IF x.t = "obj" THEN KeySeq(DOMAIN x.v) ELSE [i \in DOMAIN x.v |-> Digits[i]]

RECURSIVE Intern(_, _)
\* the value x put in memory h: [heap, val], with new objects for its
\* mappings and arrays
Intern(h, x) ==
    IF x.t \notin {"obj", "arr"} THEN [heap |-> h, val |-> x]
    ELSE LET names == NamesOf(x)
             child(i) == IF x.t = "obj" THEN x.v[names[i]] ELSE x.v[i]
             F[i \in 0..Len(names)] ==
                 IF i = 0 THEN [heap |-> h, fields |-> <<>>]
                 ELSE LET r == Intern(F[i - 1].heap, child(i))
                      IN  [heap |-> r.heap,
                           fields |-> (names[i] :> r.val) @@ F[i - 1].fields]
             done == F[Len(names)]
         IN  [heap |-> Append(done.heap, [t |-> x.t, v |-> done.fields]),
              val |-> Ref(Len(done.heap) + 1)]

RECURSIVE Deref(_, _)
\* the value that x is in memory h, its references followed
Deref(h, x) ==
    IF x.t # "ref" THEN x
    ELSE IF h[x.v].t = "obj"
    THEN Obj([k \in DOMAIN h[x.v].v |-> Deref(h, h[x.v].v[k])])
    ELSE Arr([i \in 1..Cardinality(DOMAIN h[x.v].v) |-> Deref(h, h[x.v].v[Digits[i]])])

\* h after obj[name] = val for the object at address a
Assign(h, a, name, val) == [h EXCEPT ![a].v = (name :> val) @@ @]

RECURSIVE SetNestedFrom(_, _, _, _, _)
\* the loop of setNestedValue from the i-th part on, current at address a
SetNestedFrom(h, a, parts, i, value) ==
    IF i >= Len(parts)
    THEN Assign(Intern(h, value).heap, a, Join(parts[Len(parts)]), Intern(h, value).val)
    ELSE IF Join(parts[i]) \notin DOMAIN h[a].v \/ h[a].v[Join(parts[i])].t # "ref"
    THEN SetNestedFrom(Append(Assign(h, a, Join(parts[i]), Ref(Len(h) + 1)), EmptyObj),
                       Len(h) + 1, parts, i + 1, value)
    ELSE SetNestedFrom(h, h[a].v[Join(parts[i])].v, parts, i + 1, value)

\* setNestedValue writing at the first part of the path only
setNestedValue_firstPart(h, a, path, value) ==
    SetNestedFrom(h, a, <<Split(path, ".")[1]>>, 1, value)
\* setNestedValue(obj, path, value), obj the object at address a: memory after it
setNestedValue(h, a, path, value) == SetNestedFrom(h, a, Split(path, "."), 1, value)

\* The updater a binding or an invoker hands to setDataStore, called with prev:
\* updated = { ...prev }, then setNestedValue(updated, path, value) for each of
\* its writes [path, value]; [heap, val] with val the reference to updated.
StoreUpdater(h, prev, writes) ==
    LET copied == Append(h, h[prev.v])
        F[i \in 0..Len(writes)] ==
            IF i = 0 THEN copied
            ELSE setNestedValue(F[i - 1], Len(h) + 1, writes[i].path, writes[i].value)
    IN  [heap |-> F[Len(writes)], val |-> Ref(Len(h) + 1)]

\* the state React calls a queued updater with: the state the updater before
\* it returned, the first one with the committed state
UpdaterBase_snapshot(committed, previous) == committed
UpdaterBase(committed, previous) == previous

\* the state and memory after React has applied the queued updaters in order
ApplyUpdates(h, committed, queue) ==
    LET F[i \in 0..Len(queue)] ==
            IF i = 0 THEN [heap |-> h, val |-> committed]
            ELSE StoreUpdater(F[i - 1].heap, UpdaterBase(committed, F[i - 1].val),
                              queue[i])
    IN  F[Len(queue)]

(***************************************************************************)
(* Action invokers (services/decl/utils.ts, services/actions.ts)           *)
(***************************************************************************)
\* isEvent: whether the first argument of an invoker is a UI event
IsEvent(firstArg) ==
    /\ ~IsNullish(firstArg)
    /\ IsObject(firstArg)
    /\ \/ HasKey(firstArg, "nativeEvent")
       \/ Get(firstArg, "preventDefault").t = "fn" /\ HasKey(firstArg, "target")

\* params without the event test
InvokerParams_mergeAlways(actionParams, firstArg) ==
    IF ~IsNullish(firstArg) /\ IsObject(firstArg)
    THEN ObjectAssign(Spread(actionParams), Spread(firstArg))
    ELSE actionParams
\* params: what the invoker calls the handler with
InvokerParams(actionParams, firstArg) ==
    IF ~IsEvent(firstArg) /\ ~IsNullish(firstArg) /\ IsObject(firstArg)
    THEN ObjectAssign(Spread(actionParams), Spread(firstArg))
    ELSE actionParams

\* not a number
NaN == [t |-> "nan", v |-> 0]

\* x + 1
PlusOne(x) ==
    CASE x.t = "num" -> Num(x.v + 1)
      [] x.t = "str" -> Str(x.v \o <<"1">>)
      [] x.t = "null" -> Num(1)
      [] x.t = "bool" -> Num(IF x.v THEN 2 ELSE 1)
      [] x.t = "undef" -> NaN
      [] OTHER -> Str(<<"[", "o", "b", "j", "e", "c", "t", " ", "O", "b", "j", "e", "c",
                        "t", "]", "1">>)

\* what the handler of the action name resolves with, called with params; an
\* action added by registerAction resolves with registered
HandlerResult(name, params, registered) ==
    CASE name \in {"submit", "navigate"} -> Undef
      [] name = "getValue" ->
            Obj([position |-> Obj([x |-> Num(3), y |-> Num(5)]), weight |-> Num(7)])
      [] name = "plusOne" -> Obj([value |-> PlusOne(Get(params, "value"))])
      [] OTHER -> registered

\* getActionDefinition(name)?.returns, as a truth value
DeclaresReturns_any(name) == TRUE
DeclaresReturns(name) == name \in {"getValue", "plusOne"}

\* whether the invoker hands an updater to setDataStore after the handler
\* resolved with result
WritesReturns(name, returnsMapping, result) ==
    /\ Truthy(returnsMapping)
    /\ ~IsNullish(result)
    /\ DeclaresReturns(name)

\* the writes of that updater: result[attr] at path for the entries
\* [attr, path] of returnsMapping with a string path and a defined result[attr]
ReturnsWrites(returnsMapping, result) ==
    LET written(attr) == /\ IsString(Get(returnsMapping, attr))
                         /\ Get(result, attr).t # "undef"
        F[i \in 0..Len(NamesOf(Spread(returnsMapping)))] ==
            IF i = 0 THEN <<>>
            ELSE IF written(NamesOf(Spread(returnsMapping))[i])
            THEN Append(F[i - 1],
                        [path |-> Get(returnsMapping,
                                      NamesOf(Spread(returnsMapping))[i]).v,
                         value |-> Get(result, NamesOf(Spread(returnsMapping))[i])])
            ELSE F[i - 1]
    IN  F[Len(NamesOf(Spread(returnsMapping)))]

(***************************************************************************)
(* SpecStore: the renderer's store in memory.  Bindings and invokers made  *)
(* at the last render are called; React then applies the updaters they     *)
(* queued and renders again.                                               *)
(***************************************************************************)
\* the most updaters queued in one tick (an invoker is called once in a tick),
\* and the most objects in memory when a binding or an invoker is called: the
\* stores of StoreTrees take that many
MaxPending == 2
MaxObjects == 4

StorePaths ==
    { <<"c", "o", "u", "n", "t">>, <<"u", "s", "e", "r", ".", "n", "a", "m", "e">>,
      <<"u", "s", "e", "r", ".", "l", "i", "s", "t", ".", "1">>,
      <<"a", ".", "b", ".", "c">> }

\* the stores the renderer starts with
StoreTrees ==
    { Obj([count |-> Num(7), form |-> EmptyObj,
           user |-> Obj([name |-> Str(<<"B", "o", "b">>), list |-> Arr(<<Num(1), Num(2)>>)])]),
      Obj([a |-> Str(<<"t", "e", "x", "t">>), user |-> Null, meta |-> Obj([x |-> Obj([y |-> EmptyObj])])]),
      Obj([count |-> Num(0), a |-> Obj([b |-> Obj([c |-> Obj([d |-> Num(1)])])])]) }

StoreValues == {Num(5), Obj([x |-> Num(1)])}

\* what the bindings write: a path of StorePaths and a value of StoreValues
StoreWrites ==
    { [path |-> <<"c", "o", "u", "n", "t">>, value |-> Num(5)],
      [path |-> <<"c", "o", "u", "n", "t">>, value |-> Obj([x |-> Num(1)])],
      [path |-> <<"u", "s", "e", "r", ".", "n", "a", "m", "e">>, value |-> Obj([x |-> Num(1)])],
      [path |-> <<"u", "s", "e", "r", ".", "l", "i", "s", "t", ".", "1">>, value |-> Num(5)],
      [path |-> <<"a", ".", "b", ".", "c">>, value |-> Num(5)] }

\* an event of React, and an event of the DOM
SyntheticEvent == Obj([nativeEvent |-> EmptyObj, type |-> Str(<<"c", "l", "i", "c", "k">>)])
DomEvent ==
    Obj([preventDefault |-> Fn("native", <<>>, Undef, Undef), target |-> EmptyObj,
         value |-> Num(8)])

FirstArgs ==
    {Undef, Null, Num(4), Obj([value |-> Num(9), extra |-> Bool(TRUE)]), SyntheticEvent,
     DomEvent}

ActionConfigs ==
    { Obj([name |-> Str(<<"g", "e", "t", "V", "a", "l", "u", "e">>), returns |-> Obj([weight |-> Str(<<"c", "o", "u", "n", "t">>), position |-> Str(<<"u", "s", "e", "r", ".", "p", "o", "s">>)])]),
      Obj([name |-> Str(<<"g", "e", "t", "V", "a", "l", "u", "e">>)]),
      Obj([name |-> Str(<<"p", "l", "u", "s", "O", "n", "e">>), params |-> Obj([value |-> Str(<<"{", "c", "o", "u", "n", "t", "}">>)]), returns |-> Obj([value |-> Str(<<"c", "o", "u", "n", "t">>)])]),
      Obj([name |-> Str(<<"c", "u", "s", "t", "o", "m">>), params |-> Obj([value |-> Num(1)]), returns |-> Obj([value |-> Str(<<"c", "o", "u", "n", "t">>)])]),
      Obj([name |-> Str(<<"s", "u", "b", "m", "i", "t">>), returns |-> Obj([value |-> Str(<<"c", "o", "u", "n", "t">>)])]),
      Obj([name |-> Str(<<"s", "u", "b", "m", "i", "t">>), params |-> Obj([data |-> Str(<<"{", "u", "s", "e", "r", "}">>), id |-> Num(3)])]),
      Obj([name |-> Str(<<"n", "a", "v", "i", "g", "a", "t", "e">>), params |-> Obj([url |-> Str(<<"/", "h", "o", "m", "e">>)])]) }

\* what the handler of the action added by registerAction resolves with
RegisteredResults == {Null, Obj([value |-> Num(42)])}

\* the render context of the last render, the store read from memory
StoreContext(h, store) ==
    [loadedActions |-> LoadedActions, dataStore |-> Deref(h, store)]

StoreInit ==
    /\ AggIdle
    /\ CallIdle
    /\ GenIdle
    /\ PageIdle
    /\ \E store \in StoreTrees :
          /\ heap = Intern(<<>>, store).heap
          /\ dataStore = Intern(<<>>, store).val
    /\ pendingUpdates = <<>>
    /\ handlerCall = Null
    /\ resValue = Undef
    /\ resOut = Undef
    /\ view = <<>>
    /\ loadedComponents = <<>>
    /\ renderKey = ""
    /\ rendered = Null
    /\ renderedComponent = Null

\* createDataBind(path, context).set(newValue): the updater is queued
BindingSet(path, newValue) ==
    /\ Len(pendingUpdates) < MaxPending
    /\ Len(heap) <= MaxObjects
    /\ pendingUpdates' = Append(pendingUpdates, <<[path |-> path, value |-> newValue]>>)
    /\ UNCHANGED <<heap, dataStore, handlerCall, resValue, resOut, renVars, aggVars,
                   genVars, pageVars, callVars>>

\* the invoker createActionBind(actionConfig, context) made is called with
\* firstArg: the handler is called, and the returns updater queued
InvokeAction(actionConfig, firstArg, registered) ==
    LET invoker == createActionBind(actionConfig, StoreContext(heap, dataStore))
        name == Join(invoker.v.target)
        params == InvokerParams(invoker.v.params, firstArg)
        result == HandlerResult(name, params, registered)
    IN  /\ Len(pendingUpdates) < MaxPending
        /\ Len(heap) <= MaxObjects
        /\ handlerCall = Null
        /\ invoker.t = "fn"
        /\ handlerCall' = [config |-> actionConfig, firstArg |-> firstArg,
                           name |-> name, params |-> params, result |-> result]
        /\ pendingUpdates' =
              IF WritesReturns(name, invoker.v.returns, result)
              THEN Append(pendingUpdates, ReturnsWrites(invoker.v.returns, result))
              ELSE pendingUpdates
        /\ UNCHANGED <<heap, dataStore, resValue, resOut, renVars, aggVars, genVars,
                       pageVars, callVars>>

\* React applies the queued updaters and renders with the new store
FlushUpdates ==
    /\ pendingUpdates # <<>>
    /\ heap' = ApplyUpdates(heap, dataStore, pendingUpdates).heap
    /\ dataStore' = ApplyUpdates(heap, dataStore, pendingUpdates).val
    /\ pendingUpdates' = <<>>
    /\ handlerCall' = Null
    /\ UNCHANGED <<resValue, resOut, renVars, aggVars, genVars, pageVars, callVars>>

StoreNext ==
    \/ \E write \in StoreWrites : BindingSet(write.path, write.value)
    \/ \E actionConfig \in ActionConfigs, firstArg \in FirstArgs :
          \E registered \in IF Get(actionConfig, "name").v = <<"c", "u", "s", "t", "o", "m">>
                             THEN RegisteredResults ELSE {Null} :
            InvokeAction(actionConfig, firstArg, registered)
    \/ FlushUpdates

SpecStore == StoreInit /\ [][StoreNext]_vars

(***************************************************************************)
(* Claims on the store, checked under SpecStore                            *)
(***************************************************************************)
\* the step applies the queued updaters
Flushed(queue, queueAfter) == queue # <<>> /\ queueAfter = <<>>

\* whether a write at path q can change what is read at path p
Overlaps(p, q) ==
    LET ps == Split(p, ".")
        qs == Split(q, ".")
        n == Min({Len(ps), Len(qs)})
    IN  SubSeq(ps, 1, n) = SubSeq(qs, 1, n)

\* every write of the queue that no later write of it overlaps is read back
\* from store
WritesKept(queue, store) ==
    \A i \in DOMAIN queue : \A j \in DOMAIN queue[i] :
        (\A k \in DOMAIN queue : \A l \in DOMAIN queue[k] :
            (k > i \/ (k = i /\ l > j)) => ~Overlaps(queue[i][j].path, queue[k][l].path))
        => getNestedValue(store, queue[i][j].path) = queue[i][j].value

\* C11: when two or more updaters are queued in one tick, each is applied to
\* the store the one before it produced: the committed store holds every value
\* written (that no later write of the tick overwrote), no update is lost.
C11_NoLostUpdate ==
    [][(Flushed(pendingUpdates, pendingUpdates') /\ Len(pendingUpdates) >= 2)
          => WritesKept(pendingUpdates, Deref(heap', dataStore'))]_vars

\* two bindings written in one tick are both in the committed store
C11_Witness ==
    /\ pendingUpdates = <<>>
    /\ getNestedValue(Deref(heap, dataStore), <<"c", "o", "u", "n", "t">>) = Num(5)
    /\ getNestedValue(Deref(heap, dataStore), <<"u", "s", "e", "r", ".", "n", "a", "m", "e">>)
          = Obj([x |-> Num(1)])

\* C12: a binding's set leaves the previous store unchanged: after its updater
\* ran, the previous store and every mapping reachable from it hold the values
\* they held before, whatever the depth of the path.
C12_PreviousStoreUnchanged ==
    [][(Flushed(pendingUpdates, pendingUpdates') /\ Len(pendingUpdates) = 1)
          => Deref(heap', dataStore) = Deref(heap, dataStore)]_vars

\* whether reading path from store meets an intermediate value that is
\* missing, null, undefined or not an object
BrokenPath(store, path) ==
    \E n \in 1..(Len(Split(path, ".")) - 1) :
        LET at == GetNestedFrom(store, SubSeq(Split(path, "."), 1, n), 1)
        IN  IsNullish(at) \/ ~IsObject(at)

\* C13: reading a path after writing a value at it gives the value, and a read
\* through a missing, null, undefined or non-object intermediate gives
\* undefined.
C13_RoundTrip ==
    /\ [][(Flushed(pendingUpdates, pendingUpdates') /\ Len(pendingUpdates) = 1
              /\ Len(pendingUpdates[1]) = 1)
            => getNestedValue(Deref(heap', dataStore'), pendingUpdates[1][1].path)
                  = pendingUpdates[1][1].value]_vars
    /\ [](\A path \in StorePaths :
            BrokenPath(Deref(heap, dataStore), path)
                => getNestedValue(Deref(heap, dataStore), path) = Undef)

\* a value was written through a string and read back
C13_Witness ==
    /\ pendingUpdates = <<>>
    /\ Get(Deref(heap, dataStore), "a").t = "obj"
    /\ Get(Deref(heap, dataStore), "user").t = "null"
    /\ getNestedValue(Deref(heap, dataStore), <<"a", ".", "b", ".", "c">>) = Num(5)
    /\ BrokenPath(Deref(heap, dataStore), <<"u", "s", "e", "r", ".", "n", "a", "m", "e">>)

\* the params the claim gives the handler: the resolved params, overridden
\* key by key by a first argument that is a plain object and not a UI event
ClaimedParams(resolved, firstArg) ==
    IF IsPlain(firstArg) /\ firstArg \notin {SyntheticEvent, DomEvent}
    THEN Obj([k \in Keys(resolved) \cup Keys(firstArg) |->
                 IF HasKey(firstArg, k) THEN firstArg.v[k] ELSE resolved.v[k]])
    ELSE resolved

\* C14: the handler is called with the resolved params overridden key by key
\* by the first argument when that is a plain object and not a UI event, and
\* with exactly the resolved params when it is a UI event, absent or not an
\* object.
C14_InvokerParams ==
    handlerCall # Null =>
        handlerCall.params
            = ClaimedParams(createActionBind(handlerCall.config,
                                             StoreContext(heap, dataStore)).v.params,
                            handlerCall.firstArg)

\* plusOne was invoked with an event of the DOM that carries a value, and with
\* a plain object that overrides value
C14_Witness ==
    /\ handlerCall # Null
    /\ handlerCall.name = "plusOne"
    /\ \/ handlerCall.firstArg = DomEvent /\ Get(handlerCall.params, "value") = Num(7)
       \/ /\ IsPlain(handlerCall.firstArg)
          /\ Get(handlerCall.params, "value") = Num(9)
          /\ Get(handlerCall.result, "value") = Num(10)

\* what the claim lets an invocation queue: the writes of result[attr] at the
\* path of each entry of config.returns when config.returns is present, the
\* result is not null and the action is defined with a returns schema, and
\* nothing in every other case
ClaimedReturns(call, queue, queueAfter) ==
    IF /\ HasKey(call.config, "returns")
       /\ ~IsNullish(call.result)
       /\ call.name \in {"getValue", "plusOne"}
    THEN /\ Len(queueAfter) = Len(queue) + 1
         /\ SubSeq(queueAfter, 1, Len(queue)) = queue
         /\ \A attr \in Keys(Get(call.config, "returns")) :
               Get(call.result, attr).t # "undef" =>
                  \E w \in Elements(queueAfter[Len(queueAfter)]) :
                     /\ w.path = Get(Get(call.config, "returns"), attr).v
                     /\ w.value = Get(call.result, attr)
    ELSE queueAfter = queue

\* C15: the invoker writes result[attr] to the paths of config.returns through
\* the store updater only when config.returns is present, the result is not
\* null and the action's definition declares a returns schema; in every other
\* case it queues no updater and the store is unchanged.
C15_ReturnsOnlyWhenDeclared ==
    [][(handlerCall = Null /\ handlerCall' # Null)
          => /\ ClaimedReturns(handlerCall', pendingUpdates, pendingUpdates')
             /\ UNCHANGED <<heap, dataStore>>]_vars

\* an action without a returns schema resolved with a value while its config
\* carries returns, and nothing was queued
C15_Witness ==
    /\ handlerCall # Null
    /\ handlerCall.name = "custom"
    /\ HasKey(handlerCall.config, "returns")
    /\ handlerCall.result = Obj([value |-> Num(42)])
    /\ pendingUpdates = <<>>

(***************************************************************************)
(* Claims on action props, roots and failures, checked under SpecRender    *)
(***************************************************************************)
\* the props of the node filed under nodeKey, defaulted
PropsOf(nodeKey, context) ==
    IF Get(context.declNodes[nodeKey], "props").t = "undef" THEN EmptyObj
    ELSE Get(context.declNodes[nodeKey], "props")

\* whether the node filed under nodeKey is a Button whose onClick is a config
\* object naming an action that is not loaded
HasUnloadedAction(nodeKey, context) ==
    /\ nodeKey \in DOMAIN context.declNodes
    /\ Get(context.declNodes[nodeKey], "type") = Str(<<"B", "u", "t", "t", "o", "n">>)
    /\ IsPlain(Get(PropsOf(nodeKey, context), "onClick"))
    /\ IsString(Get(Get(PropsOf(nodeKey, context), "onClick"), "name"))
    /\ Join(Get(Get(PropsOf(nodeKey, context), "onClick"), "name").v)
           \notin context.loadedActions

\* C16 (part): createActionBind returns undefined for a config object naming an
\* action that is not loaded, and the node is still rendered as an element.
C16_UnloadedActionGivesUndefined ==
    (renderKey # ""
       /\ HasUnloadedAction(renderKey, RenderContext(view, loadedComponents, dataStore)))
    => /\ createActionBind(
             Get(PropsOf(renderKey, RenderContext(view, loadedComponents, dataStore)),
                 "onClick"),
             RenderContext(view, loadedComponents, dataStore)).t = "undef"
       /\ rendered.t = "el"

\* C16: a node whose action is not loaded is rendered with that action prop
\* removed: the render target gets neither an invoker nor the config object.
C16_UnloadedActionPropRemoved ==
    (renderKey # ""
       /\ HasUnloadedAction(renderKey, RenderContext(view, loadedComponents, dataStore)))
    => /\ rendered.t = "el"
       /\ ~HasKey(rendered.v.props, "onClick")

\* the positions in keysToRender of the roots whose rendering throws
ThrowingRoots(nodes, context) ==
    {i \in DOMAIN KeysToRender(nodes) :
        IsThrown(renderDeclNode(KeysToRender(nodes)[i], context))}

IsFragment(out) == out.t = "el" /\ out.v.type.t = "comp" /\ out.v.type.v = "Fragment"

\* whether the renderer rendered a view with several roots, one of which threw
SomeRootThrew ==
    /\ renderedComponent.t # "null"
    /\ Len(KeysToRender(view)) > 1
    /\ ThrowingRoots(view, RenderContext(view, loadedComponents, dataStore)) # {}

\* C17: when an adapter throws while one root is rendered, the failure stays
\* in that root's subtree: the other roots of the view are still rendered,
\* each at its place.
C17_FailureIsLocal ==
    SomeRootThrew =>
        /\ IsFragment(renderedComponent)
        /\ \A i \in DOMAIN KeysToRender(view) :
              i \notin ThrowingRoots(view, RenderContext(view, loadedComponents, dataStore))
              => OutputChildren(renderedComponent)[i]
                    = renderDeclNode(KeysToRender(view)[i],
                                     RenderContext(view, loadedComponents, dataStore))

\* C17 (part): a throw while the view is rendered is caught: the renderer's
\* output is then the error element.
C17_FailureIsCaught ==
    (renderedComponent.t # "null"
       /\ ThrowingRoots(view, RenderContext(view, loadedComponents, dataStore)) # {})
    => renderedComponent = RenderingError

\* whether type is registered and missing from the targets that loaded
FailedToLoad(type, components) ==
    /\ DOMAIN components # {}
    /\ IsString(type)
    /\ Join(type.v) \in RegisteredTypes
    /\ Join(type.v) \notin DOMAIN components

\* whether out is the inline placeholder that names type
IsPlaceholderFor(out, type) ==
    /\ out.t = "el"
    /\ out.v.type.t = "str"
    /\ out.v.type.v = <<"d", "i", "v">>
    /\ Get(out.v.props, "className").t = "str"
    /\ Get(out.v.props, "className").v = ErrorClassName.v
    /\ Get(out.v.props, "children").t = "str"
    /\ Get(out.v.props, "children").v = ErrorPrefix \o type.v \o ErrorSuffix

\* C18: a node whose type is registered but failed to load is rendered as the
\* inline placeholder naming the type, never as a lower-case primitive.
C18_FailedTypeGivesPlaceholder ==
    (renderKey \in DOMAIN NodesMap(view)
       /\ FailedToLoad(Get(NodesMap(view)[renderKey], "type"), loadedComponents))
    => IsPlaceholderFor(rendered, Get(NodesMap(view)[renderKey], "type"))

\* the props an adapter reads as arrays of child keys
ChildKeyProps(type) ==
    IF ~IsString(type) THEN {}
    ELSE CASE Join(type.v) = "Card" -> {"action", "content", "footer", "children"}
           [] Join(type.v) \in {"ExistWhen", "Form"} -> {"children"}
           [] OTHER -> {}

\* the keys node references as children: its children list and the strings
\* of its child-key array props
ClaimedReferences(node) ==
    {Join(c.v) : c \in Elements(ChildKeys(NodeChildren(Get(node, "children"),
                                                        Get(node, "props"))))}
    \cup UNION {{Join(c.v) : c \in Elements(ChildKeys(Get(Get(node, "props"), name)))} :
                   name \in ChildKeyProps(Get(node, "type"))}

\* the keys of the view that no other node references
ClaimedRoots(nodes) ==
    {NodeMapKey(nodes[i]) : i \in
        {i \in DOMAIN nodes :
            \A j \in DOMAIN nodes :
                j # i => NodeMapKey(nodes[i]) \notin ClaimedReferences(nodes[j])}}

\* C19: the roots the renderer renders are exactly the nodes whose key no
\* other node references, by its children list or by a child-key array prop.
C19_RootsAreUnreferenced ==
    renderedComponent.t # "null" => Elements(KeysToRender(view)) = ClaimedRoots(view)

\* C19 (part): with the children list and the content prop as the only
\* references, the roots are the unreferenced nodes, in view order, and every
\* node when no node is unreferenced.
C19_RootsLackChildrenAndContentRefs ==
    renderedComponent.t # "null" =>
        \A i \in DOMAIN view :
            (NodeMapKey(view[i]) \in Elements(RootKeys(view)))
            <=> (\A j \in DOMAIN view :
                    NodeMapKey(view[i]) \notin
                        {Join(c.v) : c \in {e \in Elements(ReferencedKeys(view[j]).v) :
                                                 IsString(e)}})

(***************************************************************************)
(* The delta aggregator in memory (services/decl/generator.ts,             *)
(* services/decl/utils.ts): which objects a returned spec shares with the  *)
(* updates                                                                 *)
(***************************************************************************)
\* the elements of the array at address a, in order
ItemsAt(h, a) == [i \in 1..Cardinality(DOMAIN h[a].v) |-> h[a].v[Digits[i]]]

\* a new array of the elements items: [heap, val]
NewArray(h, items) ==
    [heap |-> Append(h, [t |-> "arr",
                         v |-> [k \in {Digits[i] : i \in DOMAIN items} |->
                                   items[CHOOSE i \in DOMAIN items : Digits[i] = k]]]),
     val |-> Ref(Len(h) + 1)]

\* x != null && typeof x === 'object' && !Array.isArray(x), for x in memory
IsPlainAt(h, x) == x.t = "ref" /\ h[x.v].t = "obj"

RECURSIVE deepMergeDataAt(_, _, _)
\* deepMergeData(existing, patch) for values in memory: [heap, val].  result
\* is a new object with the properties of existing; a patch value that is
\* not merged is put in result as it is, the patch's own object if it is one.
deepMergeDataAt(h, existing, patch) ==
    IF ~IsPlainAt(h, patch) THEN [heap |-> h, val |-> existing]
    ELSE LET names == NamesOf(h[patch.v])
             result == Len(h) + 1
             F[i \in 0..Len(names)] ==
                 IF i = 0 THEN Append(h, h[existing.v])
                 ELSE LET patchVal == h[patch.v].v[names[i]]
                          existingVal ==
                              IF names[i] \in DOMAIN F[i - 1][result].v
                              THEN F[i - 1][result].v[names[i]] ELSE Undef
                      IN  IF IsPlainAt(F[i - 1], patchVal)
                             /\ IsPlainAt(F[i - 1], existingVal)
                          THEN Assign(deepMergeDataAt(F[i - 1], existingVal, patchVal).heap,
                                      result, names[i],
                                      deepMergeDataAt(F[i - 1], existingVal, patchVal).val)
                          ELSE Assign(F[i - 1], result, names[i], patchVal)
         IN  [heap |-> F[Len(names)], val |-> Ref(result)]

\* applyDataChunk(current, update) in memory
applyDataChunkAt(h, current, update) ==
    LET data == h[update.v].v["data"]
    IN  IF ~IsPlainAt(h, data) THEN [heap |-> h, val |-> current]
        ELSE deepMergeDataAt(h, current, data)

\* applyViewChunk(current, update) in memory: a new array of the nodes kept
\* and the nodes of the patch, the node objects being the ones given
applyViewChunkAt(h, current, update) ==
    LET viewPatch == h[update.v].v["view"]
        key(el) == KeyString(Obj(h[el.v].v))
        keep(el) == \A i \in DOMAIN ItemsAt(h, viewPatch.v) :
                        key(ItemsAt(h, viewPatch.v)[i]) # key(el)
    IN  IF ~(viewPatch.t = "ref" /\ h[viewPatch.v].t = "arr")
        THEN [heap |-> h, val |-> current]
        ELSE NewArray(NewArray(h, SelectSeq(ItemsAt(h, current.v), keep)).heap,
                      SelectSeq(ItemsAt(h, current.v), keep) \o ItemsAt(h, viewPatch.v))

\* aggregateDeclUpdates(updates) for the updates at array: [heap, val] with
\* val the reference to the returned { view, data }
aggregateDeclUpdatesAt(h, array) ==
    LET items == ItemsAt(h, array.v)
        isObject(u) == u.t = "ref"
        has(hh, u, name) == isObject(u) /\ name \in DOMAIN hh[u.v].v
        F[i \in 0..Len(items)] ==
            IF i = 0
            THEN [heap |-> h \o <<[t |-> "arr", v |-> <<>>], [t |-> "obj", v |-> <<>>]>>,
                  view |-> Ref(Len(h) + 1), data |-> Ref(Len(h) + 2)]
            ELSE IF has(F[i - 1].heap, items[i], "view")
            THEN [heap |-> applyViewChunkAt(F[i - 1].heap, F[i - 1].view, items[i]).heap,
                  view |-> applyViewChunkAt(F[i - 1].heap, F[i - 1].view, items[i]).val,
                  data |-> F[i - 1].data]
            ELSE IF has(F[i - 1].heap, items[i], "data")
            THEN [heap |-> applyDataChunkAt(F[i - 1].heap, F[i - 1].data, items[i]).heap,
                  view |-> F[i - 1].view,
                  data |-> applyDataChunkAt(F[i - 1].heap, F[i - 1].data, items[i]).val]
            ELSE F[i - 1]
        done == F[Len(items)]
    IN  [heap |-> Append(done.heap,
                         [t |-> "obj", v |-> [view |-> done.view, data |-> done.data]]),
         val |-> Ref(Len(done.heap) + 1)]

(***************************************************************************)
(* SpecCalls: aggregateDeclUpdates is called on one updates array in       *)
(* memory, and the renderer, given a returned spec, takes its data as the  *)
(* store its bindings write to.                                            *)
(***************************************************************************)
\* the most calls of aggregateDeclUpdates, and of a binding's set
MaxCalls == 2
MaxWrites == 2

\* the most times the renderer is given another declSpec
MaxGiven == 2

\* one data update; two data updates that merge under user; view and data
\* updates with a node that is replaced
UpdateArrays ==
    { Arr(<<DataUpdate(Obj([user |-> Obj([name |-> Str(<<"B", "o", "b">>)])]))>>),
      Arr(<<DataUpdate(Obj([user |-> Obj([name |-> Str(<<"B", "o", "b">>)])])),
            DataUpdate(Obj([user |-> Obj([age |-> Num(3)]), count |-> Num(1)]))>>),
      Arr(<<ViewUpdate(<<NodeB>>), DataUpdate(Obj([count |-> Num(1)])),
            ViewUpdate(<<NodeB, NodeC>>)>>) }

CallPaths == {<<"c", "o", "u", "n", "t">>, <<"u", "s", "e", "r", ".", "n", "a", "m", "e">>}

CallInit ==
    /\ AggIdle
    /\ GenIdle
    /\ RenIdle
    /\ PageIdle
    /\ \E array \in UpdateArrays :
          /\ heap = Intern(<<>>, array).heap
          /\ updatesRef = Intern(<<>>, array).val
    /\ pendingUpdates = <<>>
    /\ handlerCall = Null
    /\ results = <<>>
    /\ setCalls = 0
    /\ declSpec = Undef
    /\ specsGiven = 0

\* aggregateDeclUpdates(updates) is called and returns
AggregateCall ==
    /\ Len(results) < MaxCalls
    /\ heap' = aggregateDeclUpdatesAt(heap, updatesRef).heap
    /\ results' = Append(results, aggregateDeclUpdatesAt(heap, updatesRef).val)
    /\ UNCHANGED <<updatesRef, setCalls, declSpec, specsGiven, pendingUpdates,
                   handlerCall, resVars, renVars, aggVars, genVars, pageVars>>

\* declSpec?.data, for a declSpec in memory h
SpecData(h, spec) == IF spec.t = "ref" THEN h[spec.v].v["data"] ELSE Undef

\* the store after the effect that follows a render with the prop next, the
\* render before it having had previous: [heap, val].  The store as it is,
\* never synchronised:
SyncedStore_never(h, store, previous, next) == [heap |-> h, val |-> store]

\* The effect runs when declSpec?.data is another value than before: the
\* store is the data object of next, and a new empty object when it has none.
SyncedStore(h, store, previous, next) ==
    IF SpecData(h, next) = SpecData(h, previous) THEN [heap |-> h, val |-> store]
    ELSE IF Truthy(SpecData(h, next)) THEN [heap |-> h, val |-> SpecData(h, next)]
    ELSE Intern(h, EmptyObj)

\* the renderer is rendered with the prop next, in memory h, and its effects run
RendererGiven(h, next) ==
    /\ pendingUpdates = <<>>
    /\ specsGiven < MaxGiven
    /\ specsGiven' = specsGiven + 1
    /\ declSpec' = next
    /\ heap' = SyncedStore(h, dataStore, declSpec, next).heap
    /\ dataStore' = SyncedStore(h, dataStore, declSpec, next).val
    /\ UNCHANGED <<updatesRef, results, setCalls, pendingUpdates, handlerCall, resValue,
                   resOut, renVars, aggVars, genVars, pageVars>>

\* the renderer is given the k-th returned spec as it is
SpecReceived(k) ==
    /\ declSpec # results[k]
    /\ RendererGiven(heap, results[k])

\* the page puts the spec generate delivered into the editor as JSON text,
\* parses the text and gives the renderer the spec it parsed
SpecParsed(spec) ==
    LET parsed == ParsedDeclSpec(JsonStringify(spec), TRUE, Null)
    IN  RendererGiven(Intern(heap, parsed).heap, Intern(heap, parsed).val)

\* the page starts a generation: the editor is empty and declSpec undefined
SpecWithdrawn ==
    /\ declSpec # Undef
    /\ RendererGiven(heap, ParsedDeclSpec(<<>>, TRUE, Null))

\* createDataBind(path, context).set(newValue) for a binding of the renderer
RendererSet(path, newValue) ==
    /\ dataStore.t = "ref"
    /\ setCalls < MaxWrites
    /\ Len(pendingUpdates) < MaxPending
    /\ setCalls' = setCalls + 1
    /\ pendingUpdates' = Append(pendingUpdates, <<[path |-> path, value |-> newValue]>>)
    /\ UNCHANGED <<heap, updatesRef, results, declSpec, specsGiven, handlerCall,
                   resVars, renVars, aggVars, genVars, pageVars>>

CallNext ==
    \/ AggregateCall
    \/ \E k \in DOMAIN results : SpecReceived(k)
    \/ \E path \in CallPaths : RendererSet(path, Num(5))
    \/ FlushUpdates

SpecCalls == CallInit /\ [][CallNext]_vars

(***************************************************************************)
(* SpecSync: the renderer on the page.  The page gives it the specs it     *)
(* parses from the editor's text, and no spec while a generation loads;    *)
(* its bindings write to the store.                                        *)
(***************************************************************************)
\* the renderer is mounted with no spec and an empty store
SyncInit == AggInit

SyncNext ==
    \/ \E array \in UpdateArrays : SpecParsed(aggregateDeclUpdates(array.v))
    \/ SpecWithdrawn
    \/ \E path \in CallPaths : RendererSet(path, Num(5))
    \/ FlushUpdates

SpecSync == SyncInit /\ [][SyncNext]_vars

(***************************************************************************)
(* Claims on the aggregator's calls, checked under SpecCalls               *)
(***************************************************************************)
\* C20 (part): a call of aggregateDeclUpdates changes no object that was in
\* memory before it: neither the updates nor a spec returned earlier.
C20_CallMutatesNothing ==
    [][results' # results => \A a \in DOMAIN heap : heap'[a] = heap[a]]_vars

\* C20 (part): two calls on the same updates return deep-equal specs when no
\* binding has written in between.
C20_CallsWithoutWritesDeepEqual ==
    (Len(results) = MaxCalls /\ setCalls = 0)
    => Deref(heap, results[1]) = Deref(heap, results[2])

C20_UpdatesStayAsGiven ==
    Deref(heap, updatesRef) \in UpdateArrays

(***************************************************************************)
(* Claims on the params of an action, checked under SpecRender             *)
(***************************************************************************)
\* whether the node filed under nodeKey is a Button whose onClick is a config
\* object naming a loaded action
HasLoadedAction(nodeKey, context) ==
    /\ nodeKey \in DOMAIN context.declNodes
    /\ Get(context.declNodes[nodeKey], "type") = Str(<<"B", "u", "t", "t", "o", "n">>)
    /\ IsPlain(Get(PropsOf(nodeKey, context), "onClick"))
    /\ IsString(Get(Get(PropsOf(nodeKey, context), "onClick"), "name"))
    /\ Join(Get(Get(PropsOf(nodeKey, context), "onClick"), "name").v)
           \in context.loadedActions

\* the params of the config of the node filed under nodeKey, defaulted
ConfigParams(nodeKey, context) ==
    IF IsNullish(Get(Get(PropsOf(nodeKey, context), "onClick"), "params")) THEN EmptyObj
    ELSE Get(Get(PropsOf(nodeKey, context), "onClick"), "params")

\* whether the rendered Button of nodeKey has an invoker for an action other
\* than submit, whose params are the config's params resolved once
ParamsResolvedOnce(nodeKey, out, context) ==
    (/\ HasLoadedAction(nodeKey, context)
     /\ Get(Get(PropsOf(nodeKey, context), "onClick"), "name") # Str(<<"s", "u", "b", "m", "i", "t">>)
     /\ out.t = "el")
    => /\ Get(out.v.props, "onClick").t = "fn"
       /\ Get(out.v.props, "onClick").v.params
             = resolveStoreVariables(ConfigParams(nodeKey, context), context.dataStore)

\* C21: the params the handler of a rendered node's action receives are the
\* config's params with each exact placeholder replaced by the store value at
\* its path, resolved once: a store value that is itself a placeholder text
\* is passed as it is.
C21_ParamsResolvedOnce ==
    renderKey # "" =>
        ParamsResolvedOnce(renderKey, rendered,
                           RenderContext(view, loadedComponents, dataStore))

(***************************************************************************)
(* Claims on a view delta, checked under SpecAgg                           *)
(***************************************************************************)
\* the positions of the nodes of previous whose key the delta does not carry
Survivors(previous, delta) ==
    {i \in DOMAIN previous :
        \A j \in DOMAIN delta : KeyString(delta[j]) # KeyString(previous[i])}

\* whether next is previous without the nodes whose key the delta carries,
\* the others in their order, then the nodes of the delta in their order
IsViewAfterDelta(previous, delta, next) ==
    LET S == Survivors(previous, delta)
    IN  /\ Len(next) = Cardinality(S) + Len(delta)
        /\ \A i \in S : next[Cardinality({j \in S : j <= i})] = previous[i]
        /\ \A j \in DOMAIN delta : next[Cardinality(S) + j] = delta[j]

\* C22: on a view delta the view becomes the previous view without the nodes
\* whose key the delta carries, the remaining nodes in their order, followed
\* by the delta's nodes in delta order: a replaced node stands at the end.
C22_DeltaRemovesThenAppends ==
    [][(Len(updates') = Len(updates) + 1 /\ IsArray(Get(updates'[Len(updates')], "view")))
       => IsViewAfterDelta(aggregated.view, Get(updates'[Len(updates')], "view").v,
                           aggregated'.view)]_vars

\* C22 witness: b stood first and was replaced: it now stands after a
C22_Witness ==
    /\ updates = <<ViewUpdate(<<Node("b", "X"), Node("a", "X")>>),
                   ViewUpdate(<<Node("b", "Y")>>)>>
    /\ aggregated.view = <<Node("a", "X"), Node("b", "Y")>>

(***************************************************************************)
(* Claims on the intermediates of a written path, checked under SpecStore  *)
(***************************************************************************)
RECURSIVE PathOf(_, _)
\* the path of the first n of parts
PathOf(parts, n) ==
    IF n = 1 THEN parts[1] ELSE PathOf(parts, n - 1) \o <<".">> \o parts[n]

\* whether the tick that ends queued one updater with one write
OneWriteFlushed ==
    /\ Flushed(pendingUpdates, pendingUpdates')
    /\ Len(pendingUpdates) = 1
    /\ Len(pendingUpdates[1]) = 1

\* whether the intermediate before of a written path, with next the part
\* after it, has become after as the claim says: a mapping that was there is
\* kept, with its other entries, and anything else is a new mapping
IntermediateAsClaimed(before, after, next) ==
    /\ after.t = "obj"
    /\ before.t # "obj" => Keys(after) = {next}
    /\ before.t = "obj" =>
          \A k \in Keys(before) \ {next} : k \in Keys(after) /\ after.v[k] = before.v[k]

\* whether every intermediate of the path of parts that satisfies the test
\* covered is as claimed in the store after, given the store before
IntermediatesAsClaimed(parts, storeBefore, storeAfter, covered(_)) ==
    \A i \in 1..(Len(parts) - 1) :
        covered(getNestedValue(storeBefore, PathOf(parts, i)))
        => IntermediateAsClaimed(getNestedValue(storeBefore, PathOf(parts, i)),
                                 getNestedValue(storeAfter, PathOf(parts, i)),
                                 Join(parts[i + 1]))

AnyValue(x) == TRUE
NotArray(x) == x.t # "arr"

\* C23: a write replaces every intermediate of its path that is missing or
\* not a plain mapping (a scalar, null or an array) by a new mapping, and
\* keeps the plain mappings.
C23_IntermediatesBecomeMappings ==
    [][OneWriteFlushed
       => IntermediatesAsClaimed(Split(pendingUpdates[1][1].path, "."),
                                 Deref(heap, dataStore), Deref(heap', dataStore'),
                                 AnyValue)]_vars

\* C23 (part): the same for the intermediates that are not arrays; and an
\* array is in the store after only where one was before.
C23_NonObjectsBecomeMappings ==
    [][OneWriteFlushed
       => /\ IntermediatesAsClaimed(Split(pendingUpdates[1][1].path, "."),
                                    Deref(heap, dataStore), Deref(heap', dataStore'),
                                    NotArray)
          /\ \A i \in 1..(Len(Split(pendingUpdates[1][1].path, ".")) - 1) :
                getNestedValue(Deref(heap', dataStore'),
                               PathOf(Split(pendingUpdates[1][1].path, "."), i)).t = "arr"
                => getNestedValue(Deref(heap, dataStore),
                                  PathOf(Split(pendingUpdates[1][1].path, "."), i)).t = "arr"]_vars

(***************************************************************************)
(* Claims on the specs one generation delivers, checked under SpecGen      *)
(***************************************************************************)
\* the keys of the nodes of a spec's view
ViewKeys(spec) == {KeyString(spec.view[i]) : i \in DOMAIN spec.view}

KeysPersist(out, state, result) ==
    /\ \A i \in DOMAIN out : \A j \in DOMAIN out :
          i <= j => ViewKeys(out[i]) \subseteq ViewKeys(out[j])
    /\ state = "resolved" =>
          \A i \in DOMAIN out : ViewKeys(out[i]) \subseteq ViewKeys(result.spec)

\* C24: within one generation a key that is present in a spec delivered to
\* onUpdate is present in every spec delivered later and in the final result.
C24_KeysPersist == KeysPersist(delivered, genState, genResult)

\* C24 where it holds: the response is one JSON array of updates, streamed in
\* any chunks and cut at any character.
C24_KeysPersistInOneArray ==
    llmText \in UpdateArrayTexts => KeysPersist(delivered, genState, genResult)

\* C29: when onUpdate is supplied and generate resolves, the resolved spec is
\* the spec passed to the last onUpdate call.
C29_ResultIsLastDelivered ==
    (hasOnUpdate /\ genState = "resolved") =>
        /\ Len(delivered) > 0
        /\ genResult.spec = delivered[Len(delivered)]

\* C29 where it holds: the response is one JSON array of updates.
C29_ResultIsLastDeliveredInOneArray ==
    (hasOnUpdate /\ genState = "resolved" /\ llmText \in UpdateArrayTexts) =>
        /\ Len(delivered) > 0
        /\ genResult.spec = delivered[Len(delivered)]

(***************************************************************************)
(* Claims on the data of submit, checked under SpecStore                   *)
(***************************************************************************)
\* the data the claim gives the handler of submit: the resolved data of the
\* config's params, and the whole store when that is absent, undefined or null
ClaimedData(config, store) ==
    LET rawParams == IF HasKey(config, "params") THEN Get(config, "params") ELSE EmptyObj
        resolved == resolveStoreVariables(rawParams, store)
    IN  IF ~HasKey(resolved, "data") \/ Get(resolved, "data") \in {Undef, Null}
        THEN store
        ELSE Get(resolved, "data")

\* C25: the handler of submit receives params whose data is the entire
\* current store when the resolved params have no data (absent, undefined or
\* null), and the resolved data when it is given.
C25_SubmitData ==
    (handlerCall # Null /\ handlerCall.name = "submit") =>
        Get(handlerCall.params, "data")
            = ClaimedData(handlerCall.config, Deref(heap, dataStore))

\* C25 witness: the data of the config is "{user}" and user is null in the
\* store: the handler received the whole store as data, and id as given
C25_Witness ==
    /\ handlerCall # Null
    /\ handlerCall.name = "submit"
    /\ Get(handlerCall.config, "params") # Undef
    /\ Get(Deref(heap, dataStore), "user") = Null
    /\ Get(handlerCall.params, "data") = Deref(heap, dataStore)
    /\ Get(handlerCall.params, "id") = Num(3)

(***************************************************************************)
(* Claims on the renderer's store and the specs it is given, checked under *)
(* SpecSync                                                                *)
(***************************************************************************)
\* the step applies the writes of the bindings
WritesApplied == pendingUpdates # <<>> /\ pendingUpdates' = <<>>

\* the step gives the renderer a spec whose data object is not the one of the
\* declSpec it had
GivenNewData ==
    /\ declSpec'.t = "ref"
    /\ SpecData(heap', declSpec') # SpecData(heap, declSpec)

\* the step gives the renderer no spec, after a spec
GivenNoData ==
    /\ declSpec'.t # "ref"
    /\ SpecData(heap, declSpec) # Undef

StoreChanged == Deref(heap', dataStore') # Deref(heap, dataStore)

\* C28 as stated: what bindings wrote stays in the renderer's store until the
\* renderer is given a spec whose data object is another one than before, and
\* the store is then that data object.
C28_StoreKeptUntilNewSpec ==
    [][/\ StoreChanged => (WritesApplied \/ GivenNewData)
       /\ GivenNewData => dataStore' = SpecData(heap', declSpec')]_vars

\* C28 amended: what bindings wrote stays in the renderer's store until the
\* renderer is given a spec whose data object is another one than before, or
\* no spec after a spec; the store is then that data object, and empty when
\* there is no spec.
C28_StoreKeptUntilNewData ==
    [][/\ StoreChanged => (WritesApplied \/ GivenNewData \/ GivenNoData)
       /\ GivenNewData => dataStore' = SpecData(heap', declSpec')
       /\ GivenNoData => Deref(heap', dataStore') = EmptyObj]_vars

\* C28 witness: a binding wrote 5 at count, and the spec the page parsed
\* after it was given to the renderer: the store is its data, count 1 again
C28_Witness ==
    /\ declSpec.t = "ref"
    /\ setCalls >= 1
    /\ pendingUpdates = <<>>
    /\ dataStore = SpecData(heap, declSpec)
    /\ Get(Deref(heap, dataStore), "count") = Num(1)
    /\ \E a \in DOMAIN heap :
          /\ heap[a].t = "obj"
          /\ "count" \in DOMAIN heap[a].v
          /\ heap[a].v["count"] = Num(5)

(***************************************************************************)
(* Claims on the recursion of renderDeclNode, checked under SpecRender     *)
(***************************************************************************)
\* the child references of the node filed under key: its child keys, and the
\* strings of the arrays among its props action, content, footer and children
StatedKeys(key, declNodes) ==
    LET node == declNodes[key]
        props == IF Get(node, "props").t = "undef" THEN EmptyObj ELSE Get(node, "props")
    IN  {Join(k.v) : k \in Elements(ChildKeys(NodeChildren(Get(node, "children"), props)))}
        \cup UNION {ConvertedKeys(props, slot) :
                       slot \in {"action", "content", "footer", "children"}}

RECURSIVE HasStatedChain(_, _, _)
\* whether n child references follow one another from key
HasStatedChain(key, declNodes, n) ==
    IF n = 0 THEN TRUE
    ELSE /\ key \in DOMAIN declNodes
         /\ \E k \in StatedKeys(key, declNodes) : HasStatedChain(k, declNodes, n - 1)

\* the child references of the node map form no cycle
NoCycle(declNodes) ==
    \A key \in DOMAIN declNodes :
        ~HasStatedChain(key, declNodes, Cardinality(DOMAIN declNodes) + 1)

\* C30: on a node map whose child references (children lists and child-key
\* array props) form no cycle, the recursion of renderDeclNode ends for every
\* key.
C30_NoCycleTerminates ==
    (renderKey # "" /\ NoCycle(NodesMap(view)))
    => Returns(renderKey, RenderContext(view, loadedComponents, dataStore))

\* the keys rendered for every node are among the child references the map
\* states for it
CallsAreStated(context) ==
    \A key \in DOMAIN context.declNodes :
        CalledKeys(key, context) \subseteq StatedKeys(key, context.declNodes)

\* C30 where it holds: the recursion ends when, besides, no key list is read
\* from the store.
C30_NoCycleTerminatesOnStatedKeys ==
    (/\ renderKey # ""
     /\ NoCycle(NodesMap(view))
     /\ CallsAreStated(RenderContext(view, loadedComponents, dataStore)))
    => Returns(renderKey, RenderContext(view, loadedComponents, dataStore))

=============================================================================
